---------------------------- MODULE Spec2Model ----------------------------
(***************************************************************************)
(* Model of the scheduled report agent (services/agent), its file-backed   *)
(* report store (models.ReportStore) and the parts of the Trello client     *)
(* the agent's pipeline calls.                                              *)
(*                                                                          *)
(* Strings are sequences of one-character strings, so that formatting,      *)
(* file names, directory order and glob patterns are computed and not       *)
(* assumed.  Instants are integer ticks counted in UTC from                 *)
(* 2024-01-01T00:00:00Z (a Monday); the process's local zone is the fixed   *)
(* offset tz.                                                               *)
(***************************************************************************)
EXTENDS Integers, Sequences, FiniteSets, TLC

(***************************************************************************)
(* Bounds of the model.                                                     *)
(***************************************************************************)
\* ticks per 24 hours (the clock's resolution)
TicksPerDay == 2
\* how many ticks the clock may advance after the process started
MaxElapsed == 3
\* largest zone offset of the process's local zone, in ticks, either side of UTC
MaxZone == 1
\* how many report requests the request threads make in one run
MaxRequests == 2

(***************************************************************************)
(* Strings.                                                                 *)
(***************************************************************************)
Digits == <<"0", "1", "2", "3", "4", "5", "6", "7", "8", "9">>

Digit(n) == Digits[n + 1]

\* fmt's %02d and %04d for the non-negative numbers a date holds
Pad2(n) == <<Digit((n \div 10) % 10), Digit(n % 10)>>

Pad4(n) == <<Digit((n \div 1000) % 10), Digit((n \div 100) % 10)>> \o Pad2(n)

Weekly == <<"w", "e", "e", "k", "l", "y">>

Monthly == <<"m", "o", "n", "t", "h", "l", "y">>

ReportTypes == {Weekly, Monthly}

Underscore == <<"_">>

DotJson == <<".", "j", "s", "o", "n">>

(***************************************************************************)
(* Time: the calendar of Go's time package, restricted to 2024 onwards.     *)
(***************************************************************************)
IsLeap(y) == (y % 4 = 0) /\ ((y % 100 # 0) \/ (y % 400 = 0))

DaysInMonth(y, m) ==
    IF m = 2 THEN (IF IsLeap(y) THEN 29 ELSE 28)
    ELSE IF m \in {4, 6, 9, 11} THEN 30 ELSE 31

DaysInYear(y) == IF IsLeap(y) THEN 366 ELSE 365

\* the civil date of day number d (day 0 is 2024-01-01), for d >= 0
RECURSIVE CivilFrom(_, _, _)
CivilFrom(y, m, d) ==
    IF m = 1 /\ d >= DaysInYear(y) THEN CivilFrom(y + 1, 1, d - DaysInYear(y))
    ELSE IF d >= DaysInMonth(y, m) THEN CivilFrom(y, m + 1, d - DaysInMonth(y, m))
    ELSE [year |-> y, month |-> m, day |-> d + 1]

Civil(d) == CivilFrom(2024, 1, d)

\* the day number of January 1st of year y
RECURSIVE YearStart(_)
YearStart(y) ==
    IF y = 2024 THEN 0
    ELSE IF y > 2024 THEN YearStart(y - 1) + DaysInYear(y - 1)
    ELSE YearStart(y + 1) - DaysInYear(y)

\* the days of year y before its month m
RECURSIVE MonthStart(_, _)
MonthStart(y, m) == IF m = 1 THEN 0 ELSE MonthStart(y, m - 1) + DaysInMonth(y, m - 1)

\* time.Date: the day number of a civil date whose month may be out of range
\* (month 0 is December of the year before) and whose day may exceed the
\* month's length (the overflow runs into the next month)
DayNumber(y, m, d) ==
    IF m < 1 THEN YearStart(y - 1) + MonthStart(y - 1, m + 12) + d - 1
    ELSE YearStart(y) + MonthStart(y, m) + d - 1

\* the process's local wall clock reads instant t as day LocalDay, tick TickOfDay
LocalDay(t, zone) == (t + zone) \div TicksPerDay

TickOfDay(t, zone) == (t + zone) % TicksPerDay

\* time.Weekday of the local date: Sunday = 0, Monday = 1, ...
Weekday(t, zone) == (LocalDay(t, zone) + 1) % 7

Monday == 1

\* time.Day of the local date
Day(t, zone) == Civil(LocalDay(t, zone)).day

\* t.Format("2006-01-02") of the local date
FormatDate(t, zone) ==
    LET c == Civil(LocalDay(t, zone))
    IN  Pad4(c.year) \o <<"-">> \o Pad2(c.month) \o <<"-">> \o Pad2(c.day)

\* t.Truncate(24 * time.Hour): rounds the absolute time down to a multiple of
\* 24h since the zero time, that is to midnight UTC, whatever the zone
Truncate24h(t) == t - (t % TicksPerDay)

\* t.AddDate(0, 0, days)
AddDays(t, days) == t + days * TicksPerDay

\* t.AddDate(0, months, 0): the local civil date with the month shifted,
\* normalised by time.Date, at the same local time of day
AddMonths(t, zone, months) ==
    LET c == Civil(LocalDay(t, zone))
    IN  DayNumber(c.year, c.month + months, c.day) * TicksPerDay
          + TickOfDay(t, zone) - zone

(***************************************************************************)
(* The environment: boards, narratives, threads.                            *)
(***************************************************************************)
B1 == <<"B", "1">>

B2 == <<"B", "2">>

\* a board whose ID begins with the ID of B1
B12 == <<"B", "1", "2">>

Boards == {B1, B2}

\* Board.Name as the Trello API returns it
BoardName(b) == IF b = B1 THEN <<"E", "n", "g">> ELSE <<"O", "p", "s">>

\* the narratives the text-generation backend may return
Contents == {<<"x">>, <<"y">>}

\* the goroutines that call Start and Stop, and those that serve report
\* requests
Controllers == {"t1", "t2"}

Requesters == {"t3"}

Threads == Controllers \cup Requesters

NoThread == "none"

\* how many background loops the model can hold at once (the code starts
\* one; a second slot lets a faulty Start show)
MaxLoops == 2

LoopIds == 1..MaxLoops

\* where the pipeline of one board fails, if it does; "boards" is a failure
\* of GetBoards itself
Faults == {"none", "fetch", "generate", "save"}

\* day numbers of the dates the process is started on (day 0 is Monday
\* 2024-01-01): Mon 2024-01-08, Thu 2024-02-01, Mon 2024-04-01, Tue 2024-10-15
Mon8Jan == DayNumber(2024, 1, 8)

Thu1Feb == DayNumber(2024, 2, 1)

Sun31Mar == DayNumber(2024, 3, 31)

Mon1Apr == DayNumber(2024, 4, 1)

Tue15Oct == DayNumber(2024, 10, 15)

(***************************************************************************)
(* The report store's files.                                                *)
(***************************************************************************)
NoReport ==
    [ID |-> <<>>, BoardID |-> <<>>, BoardName |-> <<>>, Type |-> <<>>,
     Content |-> <<>>, GeneratedAt |-> 0, StartDate |-> 0, EndDate |-> 0]

\* json.MarshalIndent(report): the text holds every field; a time.Time is
\* written in RFC 3339 as its local wall clock and its zone offset
MarshalTime(t, zone) == [wall |-> t + zone, offset |-> zone]

MarshalReport(r, zone) ==
    [kind |-> "json",
     id |-> r.ID, board_id |-> r.BoardID, board_name |-> r.BoardName,
     type |-> r.Type, content |-> r.Content,
     generated_at |-> MarshalTime(r.GeneratedAt, zone),
     start_date |-> MarshalTime(r.StartDate, zone),
     end_date |-> MarshalTime(r.EndDate, zone)]

\* time.Time's UnmarshalJSON: the instant is the wall clock minus the offset
UnmarshalTime(j) == j.wall - j.offset

\* json.Unmarshal(data, &report): ok is FALSE where it returns an error (an
\* empty file, text that is not JSON); the JSON object {} leaves the zero Report
UnmarshalReport(data) ==
    IF data.kind = "json"
    THEN [ok |-> TRUE,
          report |-> [ID |-> data.id, BoardID |-> data.board_id,
                      BoardName |-> data.board_name, Type |-> data.type,
                      Content |-> data.content,
                      GeneratedAt |-> UnmarshalTime(data.generated_at),
                      StartDate |-> UnmarshalTime(data.start_date),
                      EndDate |-> UnmarshalTime(data.end_date)]]
    ELSE IF data.kind = "object"
    THEN [ok |-> TRUE, report |-> NoReport]
    ELSE [ok |-> FALSE, report |-> NoReport]

\* the file name SaveReport derives
SaveFileName(r, zone) ==
    r.BoardID \o Underscore \o r.Type \o Underscore
      \o FormatDate(r.GeneratedAt, zone) \o DotJson

\* a file whose write failed after the file was opened and truncated
TruncatedFile == [readable |-> TRUE, data |-> [kind |-> "empty"]]

\* ReportStore.SaveReport under outcome o of ioutil.WriteFile: "ok", "open"
\* (the file could not be opened: nothing changes) or "write" (the write
\* failed after the file was opened with O_TRUNC)
SaveReport(fs, r, zone, o) ==
    LET name == SaveFileName(r, zone)
    IN  IF o = "ok"
        THEN (name :> [readable |-> TRUE, data |-> MarshalReport(r, zone)]) @@ fs
        ELSE IF o = "write" THEN (name :> TruncatedFile) @@ fs
        ELSE fs

SaveOutcomes == {"ok", "open", "write"}

\* a map without the key n
Without(f, n) == [m \in DOMAIN f \ {n} |-> f[m]]

\* what SaveReport under outcome o makes of the reports the store has written
Remember(sv, r, zone, o) ==
    LET name == SaveFileName(r, zone)
    IN  IF o = "ok" THEN (name :> r) @@ sv
        ELSE IF o = "write" THEN Without(sv, name)
        ELSE sv

\* the characters of file names, in the order of their bytes
ByteOrder ==
    <<"*", "-", ".", "0", "1", "2", "3", "4", "5", "6", "7", "8", "9", "A", "B", "_",
      "e", "h", "j", "k", "l", "m", "n", "o", "s", "t", "w", "y", "z">>

ByteRank(c) == CHOOSE i \in 1..Len(ByteOrder) : ByteOrder[i] = c

\* a < b as strings
RECURSIVE NameLess(_, _)
NameLess(a, b) ==
    IF b = <<>> THEN FALSE
    ELSE IF a = <<>> THEN TRUE
    ELSE IF Head(a) = Head(b) THEN NameLess(Tail(a), Tail(b))
    ELSE ByteRank(Head(a)) < ByteRank(Head(b))

\* ioutil.ReadDir: the directory's entries, sorted by file name
RECURSIVE SortNames(_)
SortNames(S) ==
    IF S = {} THEN <<>>
    ELSE LET first == CHOOSE n \in S : \A m \in S \ {n} : NameLess(n, m)
         IN  <<first>> \o SortNames(S \ {first})

ReadDir(fs) == SortNames(DOMAIN fs)

IsDir(f) == f.data.kind = "dir"

NotFound == [ok |-> FALSE, report |-> NoReport]

\* the mutant of ScanFrom that fails on a file it cannot read or parse
RECURSIVE ScanFromStrict(_, _, _, _)
ScanFromStrict(fs, names, i, id) ==
    IF i > Len(names) THEN NotFound
    ELSE LET f == fs[names[i]]
         IN  IF IsDir(f) THEN ScanFromStrict(fs, names, i + 1, id)
             ELSE IF ~f.readable \/ ~UnmarshalReport(f.data).ok THEN NotFound
             ELSE IF UnmarshalReport(f.data).report.ID = id
             THEN UnmarshalReport(f.data)
             ELSE ScanFromStrict(fs, names, i + 1, id)

\* GetReport's loop from entry i on: directories, files that cannot be read
\* and files that do not parse are skipped; the first report whose ID is id
\* is returned
RECURSIVE ScanFrom(_, _, _, _)
ScanFrom(fs, names, i, id) ==
    IF i > Len(names) THEN NotFound
    ELSE LET f == fs[names[i]]
         IN  IF IsDir(f) \/ ~f.readable \/ ~UnmarshalReport(f.data).ok
             THEN ScanFrom(fs, names, i + 1, id)
             ELSE IF UnmarshalReport(f.data).report.ID = id
             THEN UnmarshalReport(f.data)
             ELSE ScanFrom(fs, names, i + 1, id)

\* the mutant of GetReport that returns the first report it can parse,
\* whatever its ID
GetReportAnyId(fs, id) ==
    LET ids == {UnmarshalReport(fs[n].data).report.ID : n \in DOMAIN fs}
    IN  IF \E i \in ids : ScanFrom(fs, ReadDir(fs), 1, i).ok
        THEN ScanFrom(fs, ReadDir(fs), 1,
                      CHOOSE i \in ids : ScanFrom(fs, ReadDir(fs), 1, i).ok)
        ELSE NotFound

\* ReportStore.GetReport(id)
GetReport(fs, id) == ScanFrom(fs, ReadDir(fs), 1, id)

\* filepath.Match(pattern, name) for patterns of literal characters and *
\* the position of the first * of pat, or 0
FirstStar(pat) ==
    IF \E i \in 1..Len(pat) : pat[i] = "*"
    THEN CHOOSE i \in 1..Len(pat) : pat[i] = "*" /\ \A k \in 1..(i - 1) : pat[k] # "*"
    ELSE 0

\* name matches "*" followed by pat: a * takes any run of characters, the
\* literal text up to the next * has to follow it, the last text ends name
RECURSIVE MatchAfterStar(_, _)
MatchAfterStar(pat, name) ==
    LET k == FirstStar(pat)
    IN  IF k = 0
        THEN /\ Len(name) >= Len(pat)
             /\ SubSeq(name, Len(name) - Len(pat) + 1, Len(name)) = pat
        ELSE \E j \in 1..(Len(name) - k + 2) :
               /\ SubSeq(name, j, j + k - 2) = SubSeq(pat, 1, k - 1)
               /\ MatchAfterStar(SubSeq(pat, k + 1, Len(pat)),
                                 SubSeq(name, j + k - 1, Len(name)))

Match(pat, name) ==
    LET k == FirstStar(pat)
    IN  IF k = 0 THEN name = pat
        ELSE /\ Len(name) >= k - 1
             /\ SubSeq(name, 1, k - 1) = SubSeq(pat, 1, k - 1)
             /\ MatchAfterStar(SubSeq(pat, k + 1, Len(pat)), SubSeq(name, k, Len(name)))

\* filepath.Glob(filepath.Join(s.StoragePath, pattern)): the matching names
\* of the directory, sorted
Glob(fs, pat) == SelectSeq(ReadDir(fs), LAMBDA n : Match(pat, n))

\* the mutant of BoardPattern without the separator after the board ID
BoardPatternNoSeparator(b) == b \o <<"*">> \o DotJson

\* "%s_*.json"
BoardPattern(b) == b \o <<"_", "*">> \o DotJson

\* "*_%s_*.json"
InfixPattern(x) == <<"*", "_">> \o x \o <<"_", "*">> \o DotJson

NoReports == [ok |-> FALSE, reports |-> <<>>]

\* the mutant of ReadFrom that leaves out the files it cannot read or parse
RECURSIVE ReadFromLenient(_, _, _, _)
ReadFromLenient(fs, names, i, acc) ==
    IF i > Len(names) THEN [ok |-> TRUE, reports |-> acc]
    ELSE LET f == fs[names[i]]
         IN  IF IsDir(f) \/ ~f.readable \/ ~UnmarshalReport(f.data).ok
             THEN ReadFromLenient(fs, names, i + 1, acc)
             ELSE ReadFromLenient(fs, names, i + 1,
                                  Append(acc, UnmarshalReport(f.data).report))

\* the loop of GetReportsByBoard and GetReportsByType over the matches from
\* entry i on: a file that cannot be read or parsed ends the call with an
\* error and no reports
RECURSIVE ReadFrom(_, _, _, _)
ReadFrom(fs, names, i, acc) ==
    IF i > Len(names) THEN [ok |-> TRUE, reports |-> acc]
    ELSE LET f == fs[names[i]]
         IN  IF IsDir(f) \/ ~f.readable \/ ~UnmarshalReport(f.data).ok
             THEN NoReports
             ELSE ReadFrom(fs, names, i + 1,
                           Append(acc, UnmarshalReport(f.data).report))

\* ReportStore.GetReportsByBoard(boardID)
GetReportsByBoard(fs, b) == ReadFrom(fs, Glob(fs, BoardPattern(b)), 1, <<>>)

\* ReportStore.GetReportsByType(reportType)
GetReportsByType(fs, rt) == ReadFrom(fs, Glob(fs, InfixPattern(rt)), 1, <<>>)

\* the files DeleteReport(id) chooses from: the matches of "*_{id}_*.json"
DeleteTarget(fs, id) == Glob(fs, InfixPattern(id))

\* the mutant of DeleteReport that returns nil and leaves the file
DeleteReportLeavesFile(fs, id, o) ==
    IF Len(DeleteTarget(fs, id)) = 0 THEN [err |-> "notfound", files |-> fs]
    ELSE [err |-> "none", files |-> fs]

\* ReportStore.DeleteReport(id) under outcome o of os.Remove: err is
\* "notfound" without a match, "remove" where os.Remove fails, else "none"
\* and matches[0] is gone
DeleteReport(fs, id, o) ==
    LET matches == DeleteTarget(fs, id)
    IN  IF Len(matches) = 0 THEN [err |-> "notfound", files |-> fs]
        ELSE IF o = "fail" THEN [err |-> "remove", files |-> fs]
        ELSE [err |-> "none", files |-> Without(fs, matches[1])]

RemoveOutcomes == {"ok", "fail"}

\* files in the storage directory that the store did not write: an empty
\* file, text that is not JSON, the JSON object {}, a file without read
\* permission, a sub-directory
ForeignNames == {<<"A">>}

ForeignFiles ==
    {[readable |-> TRUE, data |-> [kind |-> k]] : k \in {"empty", "text", "object", "dir"}}
      \cup {[readable |-> FALSE, data |-> [kind |-> "text"]]}

(***************************************************************************)
(* State.                                                                   *)
(***************************************************************************)
VARIABLES
    env,         \* what the remote services may answer in this run:
                 \* [lists, faults, contents]
    schedule,    \* Agent.schedule: [Weekly, Monthly], fixed by NewAgent
    tz,          \* the zone offset of time.Local, in ticks
    now,         \* the instant time.Now() returns
    boot,        \* the instant the process started
    mutex,       \* Agent.mutex: the thread holding it, or NoThread
    running,     \* Agent.running
    stopClosed,  \* whether the channel Agent.stop now refers to is closed
    wg,          \* Agent.wg's counter
    panicked,    \* a goroutine panicked (close of a closed channel)
    started,     \* history: some Start call has set the agent running
    pc,          \* each thread's position in the call it makes
    ret,         \* what each thread's last call returned
    od,          \* the locals of each thread's GenerateReportOnDemand call
    requests,    \* how many report requests have been made
    lookup,      \* the last call made on the report store or on the Trello
                 \* client, and what it returned
    loops,       \* the goroutines running Agent.run, by slot
    files,       \* the storage directory: file name -> file
    saved,       \* history: file name -> the report SaveReport last wrote
                 \* there, while that file has not been removed or rewritten
    web          \* the web application's package variable reportAgent and
                 \* what its handlers did with it

vars == <<env, schedule, tz, now, boot, mutex, running, stopClosed, wg, panicked, started,
          pc, ret, od, requests, lookup, loops, files, saved, web>>

fixedVars == <<env, schedule, tz, boot>>

callVars == <<pc, ret, od, requests, lookup>>

agentVars == <<mutex, running, stopClosed, wg, panicked, started>>

DeadLoop ==
    [pc |-> "dead", cnow |-> 0, rtype |-> <<>>, startDate |-> 0, endDate |-> 0,
     boards |-> <<>>, fault |-> <<>>, idx |-> 0, content |-> <<>>, done |-> {},
     trigW |-> "unset", trigM |-> "unset", cycles |-> 0,
     ticker |-> FALSE, tickerNext |-> 0, tickPending |-> FALSE]

NoCall == [board |-> <<>>, rtype |-> <<>>, name |-> <<>>, now |-> 0,
           startDate |-> 0, content |-> <<>>]

NoLookup ==
    [op |-> "none", id |-> <<>>, ok |-> FALSE, report |-> NoReport, reports |-> <<>>]

\* the nil *agent.Agent
NoAgent == 0

\* the users of the web application, each with a session of their own
Users == {"U1", "U2"}

\* session.Values["accessToken"].(string) where the session has no such value
NoValue == ""

\* session.Values = make(map[interface{}]interface{})
NoSession == [accessToken |-> NoValue, accessSecret |-> NoValue]

\* a goroutine that serves no request
NoRequest ==
    [kind |-> "none", user |-> "none", session |-> NoSession, form |-> TRUE,
     board |-> <<>>, rtype |-> <<>>, id |-> <<>>]

\* the web application before its first request: var reportAgent *agent.Agent
NoRequests ==
    [reportAgent |-> NoAgent,
     agents |-> 0,
     creds |-> <<>>,
     visible |-> [t \in Threads |-> {NoAgent}],
     req |-> [t \in Threads |-> NoRequest],
     resp |-> [t \in Threads |-> 0],
     session |-> [u \in Users |-> NoSession],
     remote |-> {},
     uses |-> {},
     overlap |-> FALSE]

\* the state NewAgent returns, in a process started on one of `days`, in one
\* of `zones`, with one of `schedules`, against an environment e
InitAgent(e, schedules, zones, days) ==
    /\ env = e
    /\ schedule \in schedules
    /\ tz \in zones
    /\ \E d \in days, k \in 0..(TicksPerDay - 1) : now = d * TicksPerDay + k
    /\ boot = now
    /\ mutex = NoThread
    /\ running = FALSE
    /\ stopClosed = FALSE
    /\ wg = 0
    /\ panicked = FALSE
    /\ started = FALSE
    /\ pc = [t \in Threads |-> "idle"]
    /\ ret = [t \in Threads |-> "none"]
    /\ od = [t \in Threads |-> NoCall]
    /\ requests = 0
    /\ lookup = NoLookup
    /\ loops = [l \in LoopIds |-> DeadLoop]
    /\ files = <<>>
    /\ saved = <<>>
    /\ web = NoRequests

AliveLoops == {l \in LoopIds : loops[l].pc # "dead"}

(***************************************************************************)
(* Agent.Start                                                              *)
(***************************************************************************)
\* a Lock that does not wait for the holder to unlock
LockWithoutWaiting(t) == mutex' = t

\* a.mutex.Lock()
Lock(t) == mutex = NoThread /\ mutex' = t

\* the deferred a.mutex.Unlock()
Unlock(t) == mutex' = NoThread

StartLock(t) ==
    /\ ~panicked
    /\ pc[t] = "idle"
    /\ Lock(t)
    /\ pc' = [pc EXCEPT ![t] = "start_check"]
    /\ UNCHANGED <<fixedVars, web, now, running, stopClosed, wg, panicked, started, ret, od, requests, lookup,
                   loops, files, saved>>

\* a Start that does not look at a.running
StartGuardNever == FALSE

\* if a.running { return error }
StartGuard == running

StartCheck(t) ==
    /\ ~panicked
    /\ pc[t] = "start_check"
    /\ IF StartGuard
       THEN /\ pc' = [pc EXCEPT ![t] = "start_return"]
            /\ ret' = [ret EXCEPT ![t] = "already_running"]
       ELSE /\ pc' = [pc EXCEPT ![t] = "start_set"]
            /\ ret' = ret
    /\ UNCHANGED <<fixedVars, web, now, mutex, running, stopClosed, wg, panicked, started, od, requests, lookup,
                   loops, files, saved>>

\* a.running = true; a.stop = make(chan struct{})
StartSet(t) ==
    /\ ~panicked
    /\ pc[t] = "start_set"
    /\ running' = TRUE
    /\ stopClosed' = FALSE
    /\ started' = TRUE
    /\ pc' = [pc EXCEPT ![t] = "start_spawn"]
    /\ UNCHANGED <<fixedVars, web, now, mutex, wg, panicked, ret, od, requests, lookup, loops, files, saved>>

\* a.wg.Add(1); go a.run()
StartSpawn(t) ==
    /\ ~panicked
    /\ pc[t] = "start_spawn"
    /\ \E l \in LoopIds :
         /\ loops[l].pc = "dead"
         /\ \A k \in LoopIds : k < l => loops[k].pc # "dead"
         /\ loops' = [loops EXCEPT ![l] = [DeadLoop EXCEPT !.pc = "entry"]]
    /\ wg' = wg + 1
    /\ pc' = [pc EXCEPT ![t] = "start_return"]
    /\ ret' = [ret EXCEPT ![t] = "ok"]
    /\ UNCHANGED <<fixedVars, web, now, mutex, running, stopClosed, panicked, started, od, requests, lookup, files, saved>>

StartReturn(t) ==
    /\ ~panicked
    /\ pc[t] = "start_return"
    /\ Unlock(t)
    /\ pc' = [pc EXCEPT ![t] = "idle"]
    /\ UNCHANGED <<fixedVars, web, now, running, stopClosed, wg, panicked, started, ret, od, requests, lookup,
                   loops, files, saved>>

(***************************************************************************)
(* Agent.Stop                                                               *)
(***************************************************************************)
StopLock(t) ==
    /\ ~panicked
    /\ pc[t] = "idle"
    /\ Lock(t)
    /\ pc' = [pc EXCEPT ![t] = "stop_check"]
    /\ UNCHANGED <<fixedVars, web, now, running, stopClosed, wg, panicked, started, ret, od, requests, lookup,
                   loops, files, saved>>

\* if !a.running { return error }
StopGuard == ~running

StopCheck(t) ==
    /\ ~panicked
    /\ pc[t] = "stop_check"
    /\ IF StopGuard
       THEN /\ pc' = [pc EXCEPT ![t] = "stop_return"]
            /\ ret' = [ret EXCEPT ![t] = "not_running"]
       ELSE /\ pc' = [pc EXCEPT ![t] = "stop_close"]
            /\ ret' = ret
    /\ UNCHANGED <<fixedVars, web, now, mutex, running, stopClosed, wg, panicked, started, od, requests, lookup,
                   loops, files, saved>>

\* close(a.stop): closing a closed channel panics
StopClose(t) ==
    /\ ~panicked
    /\ pc[t] = "stop_close"
    /\ IF stopClosed
       THEN /\ panicked' = TRUE
            /\ pc' = [pc EXCEPT ![t] = "stop_return"]
            /\ ret' = [ret EXCEPT ![t] = "panic"]
            /\ UNCHANGED stopClosed
       ELSE /\ stopClosed' = TRUE
            /\ pc' = [pc EXCEPT ![t] = "stop_wait"]
            /\ UNCHANGED <<panicked, ret>>
    /\ UNCHANGED <<fixedVars, web, now, mutex, running, wg, started, od, requests, lookup, loops, files, saved>>

\* a Stop that does not wait for the loop
WaitDoneAtOnce == TRUE

\* a.wg.Wait() returns once the counter is zero
WaitDone == wg = 0

\* a.wg.Wait(); a.running = false
StopWait(t) ==
    /\ ~panicked
    /\ pc[t] = "stop_wait"
    /\ WaitDone
    /\ running' = FALSE
    /\ pc' = [pc EXCEPT ![t] = "stop_return"]
    /\ ret' = [ret EXCEPT ![t] = "ok"]
    /\ UNCHANGED <<fixedVars, web, now, mutex, stopClosed, wg, panicked, started, od, requests, lookup, loops,
                   files, saved>>

StopReturn(t) ==
    /\ ~panicked
    /\ pc[t] = "stop_return"
    /\ Unlock(t)
    /\ pc' = [pc EXCEPT ![t] = "idle"]
    /\ UNCHANGED <<fixedVars, web, now, running, stopClosed, wg, panicked, started, ret, od, requests, lookup,
                   loops, files, saved>>

(***************************************************************************)
(* Agent.run and the due-check cycle                                        *)
(***************************************************************************)
\* a weekly check that ignores the day of the week
WeeklyDueAnyDay(sch, t, zone) == sch.Weekly

\* a.schedule.Weekly && now.Weekday() == time.Monday
WeeklyDue(sch, t, zone) == sch.Weekly /\ Weekday(t, zone) = Monday

\* a.schedule.Monthly && now.Day() == 1
MonthlyDue(sch, t, zone) == sch.Monthly /\ Day(t, zone) = 1

\* a.checkAndGenerateReports() begins: now := time.Now()
BeginCycle(lp) ==
    [lp EXCEPT !.pc = "check_weekly", !.cnow = now, !.cycles = @ + 1,
               !.trigW = "unset", !.trigM = "unset", !.rtype = <<>>,
               !.boards = <<>>, !.fault = <<>>, !.idx = 0, !.done = {},
               !.content = <<>>, !.startDate = 0, !.endDate = 0]

\* checkAndGenerateReports returned: run creates its ticker after the first
\* cycle and then selects
EndCycle(lp) ==
    IF lp.ticker THEN [lp EXCEPT !.pc = "select"]
    ELSE [lp EXCEPT !.pc = "select", !.ticker = TRUE,
                    !.tickerNext = now + TicksPerDay]

\* generateWeeklyReports / generateMonthlyReports returned
AfterType(lp) ==
    IF lp.rtype = Weekly THEN [lp EXCEPT !.pc = "check_monthly"] ELSE EndCycle(lp)

\* the for loop over the boards: the next board, or the end of the loop
NextBoard(lp) ==
    LET n == [lp EXCEPT !.idx = @ + 1, !.content = <<>>]
    IN  IF n.idx > Len(n.boards) THEN AfterType(n) ELSE [n EXCEPT !.pc = "fetch"]

\* a failure that ends the for loop over the boards
AfterFailureGiveUp(lp) == AfterType(lp)

\* generateReport returned early on an error: the for loop goes on
AfterFailure(lp) == NextBoard(lp)

\* a run that goes to its ticker without a first check
FirstCheckSkipped(lp) == EndCycle(lp)

\* run's first statement: a.checkAndGenerateReports()
FirstCheck(lp) == BeginCycle(lp)

LoopEntry(l) ==
    /\ ~panicked
    /\ loops[l].pc = "entry"
    /\ loops' = [loops EXCEPT ![l] = FirstCheck(@)]
    /\ UNCHANGED <<fixedVars, web, now, agentVars, callVars, files, saved>>

CheckWeekly(l) ==
    /\ ~panicked
    /\ loops[l].pc = "check_weekly"
    /\ loops' = [loops EXCEPT ![l] =
         IF WeeklyDue(schedule, @.cnow, tz)
         THEN LET e == Truncate24h(@.cnow)
              IN  [@ EXCEPT !.pc = "boards", !.trigW = "yes", !.rtype = Weekly,
                            !.endDate = e, !.startDate = AddDays(e, -7)]
         ELSE [@ EXCEPT !.pc = "check_monthly", !.trigW = "no"]]
    /\ UNCHANGED <<fixedVars, web, now, agentVars, callVars, files, saved>>

CheckMonthly(l) ==
    /\ ~panicked
    /\ loops[l].pc = "check_monthly"
    /\ loops' = [loops EXCEPT ![l] =
         IF MonthlyDue(schedule, @.cnow, tz)
         THEN LET e == Truncate24h(@.cnow)
              IN  [@ EXCEPT !.pc = "boards", !.trigM = "yes", !.rtype = Monthly,
                            !.endDate = e, !.startDate = AddMonths(e, tz, -1),
                            !.boards = <<>>, !.fault = <<>>, !.idx = 0,
                            !.done = {}]
         ELSE EndCycle([@ EXCEPT !.trigM = "no"])]
    /\ UNCHANGED <<fixedVars, web, now, agentVars, callVars, files, saved>>

\* a.trelloClient.GetBoards(): an error ends the type's generation; a list
\* starts the for loop.  fault fixes where each board's pipeline will fail.
GetBoards(l) ==
    /\ ~panicked
    /\ loops[l].pc = "boards"
    /\ \/ /\ "boards" \in env.faults
          /\ loops' = [loops EXCEPT ![l] = AfterType(@)]
       \/ \E bl \in env.lists : \E f \in [1..Len(bl) -> env.faults \cap Faults] :
            loops' = [loops EXCEPT ![l] =
                        [@ EXCEPT !.pc = "fetch", !.boards = bl, !.fault = f,
                                  !.idx = 1, !.done = {}]]
    /\ UNCHANGED <<fixedVars, web, now, agentVars, callVars, files, saved>>

\* generateReport: a.trelloClient.GetBoardData(boardID, startDate)
FetchBoardData(l) ==
    /\ ~panicked
    /\ loops[l].pc = "fetch"
    /\ loops' = [loops EXCEPT ![l] =
         IF @.fault[@.idx] = "fetch" THEN AfterFailure(@)
         ELSE [@ EXCEPT !.pc = "generate"]]
    /\ UNCHANGED <<fixedVars, web, now, agentVars, callVars, files, saved>>

\* generateReport: a.aifoundryClient.GenerateReport(boardData, reportType)
GenerateNarrative(l) ==
    /\ ~panicked
    /\ loops[l].pc = "generate"
    /\ \/ /\ loops[l].fault[loops[l].idx] = "generate"
          /\ loops' = [loops EXCEPT ![l] = AfterFailure(@)]
       \/ /\ loops[l].fault[loops[l].idx] # "generate"
          /\ \E c \in env.contents :
               loops' = [loops EXCEPT ![l] = [@ EXCEPT !.pc = "save", !.content = c]]
    /\ UNCHANGED <<fixedVars, web, now, agentVars, callVars, files, saved>>

\* the report generateReport builds for board b
PeriodicReport(b, rtype, content, startDate, endDate, generatedAt, zone) ==
    [ID |-> b \o Underscore \o rtype \o Underscore \o FormatDate(endDate, zone),
     BoardID |-> b, BoardName |-> BoardName(b), Type |-> rtype,
     Content |-> content, GeneratedAt |-> generatedAt,
     StartDate |-> startDate, EndDate |-> endDate]

\* generateReport: build the report (GeneratedAt: time.Now()) and save it
SavePeriodic(l) ==
    /\ ~panicked
    /\ loops[l].pc = "save"
    /\ LET lp == loops[l]
           r == PeriodicReport(lp.boards[lp.idx], lp.rtype, lp.content,
                               lp.startDate, lp.endDate, now, tz)
       IN  \/ /\ lp.fault[lp.idx] = "save"
              /\ \E o \in SaveOutcomes \ {"ok"} :
                   /\ files' = SaveReport(files, r, tz, o)
                   /\ saved' = Remember(saved, r, tz, o)
              /\ loops' = [loops EXCEPT ![l] = AfterFailure(@)]
           \/ /\ lp.fault[lp.idx] # "save"
              /\ files' = SaveReport(files, r, tz, "ok")
              /\ saved' = Remember(saved, r, tz, "ok")
              /\ loops' = [loops EXCEPT ![l] =
                             NextBoard([@ EXCEPT !.done = @ \cup {lp.idx}])]
    /\ UNCHANGED <<fixedVars, web, now, agentVars, callVars>>

\* select, case <-ticker.C
SelectTick(l) ==
    /\ ~panicked
    /\ loops[l].pc = "select"
    /\ loops[l].tickPending
    /\ loops' = [loops EXCEPT ![l] = BeginCycle([@ EXCEPT !.tickPending = FALSE])]
    /\ UNCHANGED <<fixedVars, web, now, agentVars, callVars, files, saved>>

\* the mutant of SelectStop that returns without a.wg.Done()
SelectStopWithoutDone(l) ==
    /\ ~panicked
    /\ loops[l].pc = "select"
    /\ stopClosed
    /\ loops' = [loops EXCEPT ![l] = DeadLoop]
    /\ UNCHANGED <<fixedVars, web, now, agentVars, callVars, files, saved>>

\* select, case <-a.stop: return; the deferred ticker.Stop() and a.wg.Done()
SelectStop(l) ==
    /\ ~panicked
    /\ loops[l].pc = "select"
    /\ stopClosed
    /\ loops' = [loops EXCEPT ![l] = DeadLoop]
    /\ wg' = wg - 1
    /\ UNCHANGED <<fixedVars, web, now, mutex, running, stopClosed, panicked, started,
                   callVars, files, saved>>

\* time passes; a ticker whose period elapsed puts a tick in its channel
\* (capacity 1: a tick nobody took is not doubled)
ClockTick ==
    /\ ~panicked
    /\ now < boot + MaxElapsed
    /\ now' = now + 1
    /\ loops' = [l \in LoopIds |->
         IF loops[l].pc # "dead" /\ loops[l].ticker /\ now' >= loops[l].tickerNext
         THEN [loops[l] EXCEPT !.tickPending = TRUE,
                               !.tickerNext = @ + TicksPerDay]
         ELSE loops[l]]
    /\ UNCHANGED <<fixedVars, web, agentVars, callVars, files, saved>>

(***************************************************************************)
(* Agent.GenerateReportOnDemand                                             *)
(***************************************************************************)
\* the call fails: it returns (nil, error)
OdFail(t) ==
    /\ pc' = [pc EXCEPT ![t] = "idle"]
    /\ ret' = [ret EXCEPT ![t] = "error"]
    /\ od' = [od EXCEPT ![t] = NoCall]

\* the mutant of OnDemandStart that takes a week for every report type
OnDemandStartWeekAgo(rtype, t, zone) == AddDays(t, -7)

\* startDate of the on-demand window
OnDemandStart(rtype, t, zone) ==
    IF rtype = Weekly THEN AddDays(t, -7) ELSE AddMonths(t, zone, -1)

\* the boards the credentials give access to
Accessible == UNION {{bl[i] : i \in 1..Len(bl)} : bl \in env.lists}

\* a.trelloClient.GetBoardDetails(boardID), which fails for a board that
\* is not accessible; now := time.Now(); startDate
OdDetails(t) ==
    /\ ~panicked
    /\ pc[t] = "idle"
    /\ requests < MaxRequests
    /\ requests' = requests + 1
    /\ \E b \in Boards, rt \in ReportTypes :
         \/ OdFail(t)
         \/ /\ b \in Accessible
            /\ pc' = [pc EXCEPT ![t] = "od_data"]
            /\ od' = [od EXCEPT ![t] =
                 [board |-> b, rtype |-> rt, name |-> BoardName(b), now |-> now,
                  startDate |-> OnDemandStart(rt, now, tz), content |-> <<>>]]
            /\ ret' = ret
    /\ UNCHANGED <<fixedVars, web, now, agentVars, loops, lookup, files, saved>>

\* the mutant of OdData that runs under the agent's mutex
OdDataUnderLock(t) ==
    /\ ~panicked
    /\ mutex = NoThread
    /\ pc[t] = "od_data"
    /\ \/ OdFail(t)
       \/ /\ pc' = [pc EXCEPT ![t] = "od_generate"]
          /\ UNCHANGED <<ret, od>>
    /\ UNCHANGED <<fixedVars, web, now, requests, lookup, agentVars, loops, files, saved>>

\* a.trelloClient.GetBoardData(boardID, startDate)
OdData(t) ==
    /\ ~panicked
    /\ pc[t] = "od_data"
    /\ \/ OdFail(t)
       \/ /\ pc' = [pc EXCEPT ![t] = "od_generate"]
          /\ UNCHANGED <<ret, od>>
    /\ UNCHANGED <<fixedVars, web, now, requests, lookup, agentVars, loops, files, saved>>

\* a.aifoundryClient.GenerateReport(boardData, reportType)
OdGenerate(t) ==
    /\ ~panicked
    /\ pc[t] = "od_generate"
    /\ \/ OdFail(t)
       \/ /\ pc' = [pc EXCEPT ![t] = "od_save"]
          /\ \E c \in env.contents : od' = [od EXCEPT ![t].content = c]
          /\ ret' = ret
    /\ UNCHANGED <<fixedVars, web, now, requests, lookup, agentVars, loops, files, saved>>

\* the report GenerateReportOnDemand builds
OnDemandReport(c, zone) ==
    [ID |-> c.board \o Underscore \o c.rtype \o Underscore \o FormatDate(c.now, zone),
     BoardID |-> c.board, BoardName |-> c.name, Type |-> c.rtype,
     Content |-> c.content, GeneratedAt |-> c.now,
     StartDate |-> c.startDate, EndDate |-> c.now]

\* a.reportStore.SaveReport(report); return report, nil
OdSave(t) ==
    /\ ~panicked
    /\ pc[t] = "od_save"
    /\ \E o \in SaveOutcomes :
         /\ files' = SaveReport(files, OnDemandReport(od[t], tz), tz, o)
         /\ saved' = Remember(saved, OnDemandReport(od[t], tz), tz, o)
         /\ IF o = "ok"
            THEN /\ pc' = [pc EXCEPT ![t] = "idle"]
                 /\ ret' = [ret EXCEPT ![t] = "ok"]
                 /\ od' = [od EXCEPT ![t] = NoCall]
            ELSE OdFail(t)
    /\ UNCHANGED <<fixedVars, web, now, requests, lookup, agentVars, loops>>

(***************************************************************************)
(* Client.GetBoardData                                                      *)
(***************************************************************************)
\* what the Trello API answers to the five requests of one GetBoardData
\* call: each fails (the request, the read of the body or its parsing) or
\* yields a parsed value
Failed(v) == [ok |-> FALSE, value |-> v]

Fetched(v) == [ok |-> TRUE, value |-> v]

NoBoard == [id |-> <<>>, name |-> <<>>]

TrelloAnswers(b) ==
    [board : {Failed(NoBoard), Fetched([id |-> b, name |-> BoardName(b)])},
     lists : {Failed(<<>>), Fetched(<<"todo">>)},
     cards : {Failed(<<>>), Fetched(<<"card">>)},
     members : {Failed(<<>>), Fetched(<<>>)},
     activity : {Failed(<<>>), Fetched(<<>>), Fetched(<<"moved">>)}]

\* convertToMap(data) of a slice: {"items": items}
ConvertSlice(items) == [items |-> items]

\* the nil map returned with an error
NoSnapshot ==
    [nil |-> TRUE, board |-> NoBoard, lists |-> ConvertSlice(<<>>),
     cards |-> ConvertSlice(<<>>), members |-> ConvertSlice(<<>>),
     activities |-> <<>>]

SnapshotError(e) == [ok |-> FALSE, err |-> e, data |-> NoSnapshot]

\* the mutant of Activities that has an activity where the request failed
ActivitiesMadeUp(ans) ==
    IF ans.activity.ok THEN ans.activity.value ELSE <<"moved">>

\* activities after GetBoardActivity and the warning branch
Activities(ans) == IF ans.activity.ok THEN ans.activity.value ELSE <<>>

\* Client.GetBoardData(boardID, since) against the answers ans: the first of
\* the board, list, card and member requests that fails ends the call with
\* its error
GetBoardData(b, since, ans) ==
    IF ~ans.board.ok THEN SnapshotError("board")
    ELSE IF ~ans.lists.ok THEN SnapshotError("lists")
    ELSE IF ~ans.cards.ok THEN SnapshotError("cards")
    ELSE IF ~ans.members.ok THEN SnapshotError("members")
    ELSE [ok |-> TRUE, err |-> "none",
          data |-> [nil |-> FALSE,
                    board |-> ans.board.value,
                    lists |-> ConvertSlice(ans.lists.value),
                    cards |-> ConvertSlice(ans.cards.value),
                    members |-> ConvertSlice(ans.members.value),
                    activities |-> Activities(ans)]]

\* c.GetBoardData(boardID, since), the requests answered one way or another
SnapshotCall ==
    /\ ~panicked
    /\ \E b \in Accessible, rt \in ReportTypes :
         \E ans \in TrelloAnswers(b) :
           LET since == OnDemandStart(rt, now, tz)
           IN  lookup' = [op |-> "snapshot", id |-> b, since |-> since, ans |-> ans,
                          ok |-> GetBoardData(b, since, ans).ok,
                          err |-> GetBoardData(b, since, ans).err,
                          data |-> GetBoardData(b, since, ans).data]
    /\ UNCHANGED <<fixedVars, web, now, agentVars, pc, ret, od, requests, loops, files, saved>>

(***************************************************************************)
(* Calls on the report store, each taken as one step.                       *)
(***************************************************************************)
\* the reports the agent can hand to SaveReport at this instant: the one a
\* periodic cycle begun at cnow builds for a type due at cnow, and the one an
\* on-demand call begun at cnow builds
ReportsToSave(cnow) ==
    LET e == Truncate24h(cnow)
    IN  {PeriodicReport(b, Weekly, c, AddDays(e, -7), e, now, tz) :
            b \in {x \in Accessible : WeeklyDue(schedule, cnow, tz)}, c \in env.contents}
        \cup
        {PeriodicReport(b, Monthly, c, AddMonths(e, tz, -1), e, now, tz) :
            b \in {x \in Accessible : MonthlyDue(schedule, cnow, tz)}, c \in env.contents}
        \cup
        {OnDemandReport([board |-> b, rtype |-> rt, name |-> BoardName(b),
                         now |-> cnow, startDate |-> OnDemandStart(rt, cnow, tz),
                         content |-> c], tz) :
            b \in Accessible, rt \in ReportTypes, c \in env.contents}

\* s.SaveReport(report)
StoreSave ==
    /\ ~panicked
    /\ requests < MaxRequests
    /\ requests' = requests + 1
    /\ \E cnow \in {t \in {now - 1, now} : t >= boot}, o \in SaveOutcomes :
         \E r \in ReportsToSave(cnow) :
           /\ files' = SaveReport(files, r, tz, o)
           /\ saved' = Remember(saved, r, tz, o)
           /\ lookup' = [op |-> "save", id |-> r.ID, ok |-> (o = "ok"), report |-> r,
                         reports |-> <<>>]
    /\ UNCHANGED <<fixedVars, web, now, agentVars, pc, ret, od, loops>>

\* the IDs of the files that parse, and the ID of a report that is not there
KnownIds ==
    {UnmarshalReport(files[n].data).report.ID : n \in DOMAIN files}
      \cup {B2 \o Underscore \o Weekly \o Underscore \o FormatDate(now, tz)}

\* s.GetReport(id)
StoreGet ==
    /\ ~panicked
    /\ \E id \in KnownIds :
         lookup' = [op |-> "get", id |-> id, ok |-> GetReport(files, id).ok,
                    report |-> GetReport(files, id).report, reports |-> <<>>]
    /\ UNCHANGED <<fixedVars, web, now, agentVars, pc, ret, od, requests, loops, files, saved>>

\* somebody else puts a file into the storage directory or removes theirs
ForeignWrite ==
    /\ ~panicked
    /\ \E n \in ForeignNames :
         \/ \E f \in ForeignFiles : files' = (n :> f) @@ files
         \/ /\ n \in DOMAIN files
            /\ files' = Without(files, n)
    /\ lookup' = NoLookup
    /\ UNCHANGED <<fixedVars, web, now, agentVars, pc, ret, od, requests, loops, saved>>

\* s.GetReportsByBoard(boardID)
StoreByBoard ==
    /\ ~panicked
    /\ \E b \in Accessible \cup {B2} :
         lookup' = [op |-> "byboard", id |-> b, ok |-> GetReportsByBoard(files, b).ok,
                    report |-> NoReport,
                    reports |-> GetReportsByBoard(files, b).reports]
    /\ UNCHANGED <<fixedVars, web, now, agentVars, pc, ret, od, requests, loops, files, saved>>

\* s.GetReportsByType(reportType)
StoreByType ==
    /\ ~panicked
    /\ \E rt \in ReportTypes :
         lookup' = [op |-> "bytype", id |-> rt, ok |-> GetReportsByType(files, rt).ok,
                    report |-> NoReport,
                    reports |-> GetReportsByType(files, rt).reports]
    /\ UNCHANGED <<fixedVars, web, now, agentVars, pc, ret, od, requests, loops, files, saved>>

\* s.DeleteReport(id), for the ID of a stored report, the ID of a report
\* that is not there, or a report type
StoreDelete ==
    /\ ~panicked
    /\ \E id \in KnownIds \cup ReportTypes :
       \E o \in IF DeleteTarget(files, id) = <<>> THEN {"ok"} ELSE RemoveOutcomes :
         LET d == DeleteReport(files, id, o)
         IN  /\ files' = d.files
             /\ saved' = IF d.err = "none"
                         THEN Without(saved, DeleteTarget(files, id)[1])
                         ELSE saved
             /\ lookup' = [op |-> "delete", id |-> id, ok |-> (d.err = "none"),
                            report |-> NoReport, reports |-> <<>>]
    /\ UNCHANGED <<fixedVars, web, now, agentVars, pc, ret, od, requests, loops>>

\* somebody takes the read permission from a file of the directory
ForeignChmod ==
    /\ ~panicked
    /\ \E n \in DOMAIN files :
         /\ files[n].readable
         /\ files' = [files EXCEPT ![n].readable = FALSE]
    /\ lookup' = NoLookup
    /\ UNCHANGED <<fixedVars, web, now, agentVars, pc, ret, od, requests, loops, saved>>

\* time passes while no agent loop runs
StoreClock ==
    /\ ~panicked
    /\ now < boot + MaxElapsed
    /\ now' = now + 1
    /\ lookup' = NoLookup
    /\ UNCHANGED <<fixedVars, web, agentVars, pc, ret, od, requests, loops, files, saved>>

(***************************************************************************)
(* The handlers of the web application that use reportAgent: ReportsHandler, *)
(* GenerateReportHandler, ViewReportHandler and DownloadReportPDFHandler,    *)
(* each request served by its own goroutine.  reportAgent is read and        *)
(* written without a lock: a goroutine reads any of the values the variable  *)
(* held since the request began or since the goroutine's own last write.     *)
(***************************************************************************)
HandlerKinds == {"list", "generate", "view", "pdf"}

\* a report_type form value that is neither weekly nor monthly
Daily == <<"d", "a", "i", "l", "y">>

\* the boards the Trello account of user u can read
BoardsOf(u) == IF u = "U1" THEN {B1} ELSE {B2}

\* the user whose access token tok is
OwnerOf(tok) == tok

\* the ID a view or download request asks for
ViewId == B1 \o Underscore \o Weekly \o Underscore \o FormatDate(now, tz)

\* the requests user u's browser can send with the session values ses
RequestsOf(u, ses) ==
    LET base == [NoRequest EXCEPT !.user = u, !.session = ses]
    IN  {[base EXCEPT !.kind = "list", !.board = b] : b \in {<<>>, B1, B2}}
        \cup {[base EXCEPT !.kind = "generate", !.board = b, !.rtype = rt] :
                 b \in {<<>>, B1, B2}, rt \in {<<>>, Weekly, Monthly, Daily}}
        \cup {[base EXCEPT !.kind = "generate", !.form = FALSE]}
        \cup {[base EXCEPT !.kind = k, !.id = id] :
                 k \in {"view", "pdf"}, id \in {<<>>, ViewId}}

\* ok1 && ok2 of the handlers' session check
Authenticated(ses) == ses.accessToken # NoValue /\ ses.accessSecret # NoValue

\* the mutant of Validated that lets every report type through
ValidatedAnyType(r) ==
    IF r.kind = "list" THEN r.board # <<>>
    ELSE IF r.kind = "generate" THEN r.form /\ r.board # <<>> /\ r.rtype # <<>>
    ELSE r.id # <<>>

\* the parameter checks of the handler of r.kind (the router lets only POST
\* reach GenerateReportHandler, so its method check always passes)
Validated(r) ==
    IF r.kind = "list" THEN r.board # <<>>
    ELSE IF r.kind = "generate"
    THEN r.form /\ r.board # <<>> /\ r.rtype # <<>> /\ r.rtype \in ReportTypes
    ELSE r.id # <<>>

\* the mutant of Admit that does not look at the session
AdmitAnySession(r) ==
    IF ~Validated(r) THEN (IF r.kind = "list" THEN 307 ELSE 400)
    ELSE 0

\* the status the handler answers before it touches reportAgent, 0 where it
\* goes on: the session check, then the parameter checks
Admit(r) ==
    IF ~Authenticated(r.session) THEN (IF r.kind = "generate" THEN 401 ELSE 307)
    ELSE IF ~Validated(r) THEN (IF r.kind = "list" THEN 307 ELSE 400)
    ELSE 0

\* what the goroutines in a handler may read after goroutine t wrote v
AfterWrite(t, v) ==
    [u \in Threads |->
        IF u = t THEN {v}
        ELSE IF pc[u] # "idle" THEN web.visible[u] \cup {v}
        ELSE web.visible[u]]

\* the request arrives; the session and parameter checks end it with a
\* redirect, a 401 or a 400, or let it through
HandlerEnter(t) ==
    /\ pc[t] = "idle"
    /\ requests < MaxRequests
    /\ requests' = requests + 1
    /\ \E u \in Users : \E r \in RequestsOf(u, web.session[u]) :
         IF Admit(r) # 0
         THEN /\ web' = [web EXCEPT !.req[t] = r, !.resp[t] = Admit(r)]
              /\ ret' = [ret EXCEPT ![t] = "error"]
              /\ pc' = pc
         ELSE /\ web' = [web EXCEPT !.req[t] = r, !.resp[t] = 0,
                                    !.visible[t] = {web.reportAgent},
                                    !.overlap = @ \/ \E o \in Threads \ {t} : pc[o] # "idle"]
              /\ pc' = [pc EXCEPT ![t] = "h_check"]
              /\ ret' = ret
    /\ UNCHANGED <<fixedVars, now, agentVars, od, lookup, loops, files, saved>>

\* if reportAgent == nil
HandlerCheck(t) ==
    /\ pc[t] = "h_check"
    /\ \E v \in web.visible[t] :
         pc' = [pc EXCEPT ![t] = IF v = NoAgent THEN "h_new" ELSE "h_use"]
    /\ UNCHANGED <<fixedVars, web, now, agentVars, ret, od, requests, lookup, loops,
                   files, saved>>

\* reportAgent, err = agent.NewAgent(accessToken, accessSecret, ...);
\* if err != nil { 500; return }
HandlerNew(t) ==
    /\ pc[t] = "h_new"
    /\ \/ /\ web' = [web EXCEPT !.reportAgent = web.agents + 1,
                                !.agents = @ + 1,
                                !.creds = Append(@, web.req[t].session),
                                !.visible = AfterWrite(t, web.agents + 1)]
          /\ pc' = [pc EXCEPT ![t] = "h_use"]
          /\ ret' = ret
       \/ /\ web' = [web EXCEPT !.reportAgent = NoAgent,
                                !.visible = AfterWrite(t, NoAgent),
                                !.resp[t] = 500]
          /\ pc' = [pc EXCEPT ![t] = "idle"]
          /\ ret' = [ret EXCEPT ![t] = "error"]
    /\ UNCHANGED <<fixedVars, now, agentVars, od, requests, lookup, loops, files, saved>>

\* a call of the Trello API for request r with the credentials c
RemoteCall(r, c) == [user |-> r.user, session |-> r.session, creds |-> c]

\* the call returns to the handler, which answers with status code
HandlerDone(t, code) ==
    /\ pc' = [pc EXCEPT ![t] = "idle"]
    /\ ret' = [ret EXCEPT ![t] = IF code < 400 THEN "ok" ELSE "error"]

\* reportAgent.GetReportsByBoard(boardID), whose error is logged only, then
\* config.Consumer.Get of the board with the session's own token
UseList(t, v) ==
    LET r == web.req[t]
        l == GetReportsByBoard(files, r.board)
    IN  /\ lookup' = [op |-> "byboard", id |-> r.board, ok |-> l.ok,
                      report |-> NoReport, reports |-> l.reports]
        /\ \E code \in {200, 500} :
             /\ web' = [web EXCEPT !.uses = @ \cup {v}, !.resp[t] = code,
                                   !.remote = @ \cup {RemoteCall(r, r.session)}]
             /\ HandlerDone(t, code)
        /\ UNCHANGED <<files, saved>>

\* reportAgent.GenerateReportOnDemand(boardID, rType): the agent fetches with
\* the credentials it was built with; a failure of one of its steps is a 500
UseGenerate(t, v) ==
    LET r == web.req[t]
        c == web.creds[v]
        rep == OnDemandReport([board |-> r.board, rtype |-> r.rtype,
                               name |-> BoardName(r.board), now |-> now,
                               startDate |-> OnDemandStart(r.rtype, now, tz),
                               content |-> <<"x">>], tz)
    IN  /\ \/ /\ UNCHANGED <<files, saved>>
              /\ web' = [web EXCEPT !.uses = @ \cup {v}, !.resp[t] = 500,
                                    !.remote = @ \cup {RemoteCall(r, c)}]
              /\ HandlerDone(t, 500)
           \/ /\ r.board \in BoardsOf(OwnerOf(c.accessToken))
              /\ \E o \in SaveOutcomes :
                   /\ files' = SaveReport(files, rep, tz, o)
                   /\ saved' = Remember(saved, rep, tz, o)
                   /\ web' = [web EXCEPT !.uses = @ \cup {v},
                                         !.resp[t] = IF o = "ok" THEN 303 ELSE 500,
                                         !.remote = @ \cup {RemoteCall(r, c)}]
                   /\ HandlerDone(t, IF o = "ok" THEN 303 ELSE 500)
        /\ lookup' = lookup

\* reportAgent.GetReport(reportID): 404 where it fails; the PDF generator
\* may fail too
UseView(t, v) ==
    LET r == web.req[t]
        g == GetReport(files, r.id)
    IN  /\ lookup' = [op |-> "get", id |-> r.id, ok |-> g.ok,
                      report |-> g.report, reports |-> <<>>]
        /\ \E code \in IF ~g.ok THEN {404}
                       ELSE IF r.kind = "pdf" THEN {200, 500} ELSE {200} :
             /\ web' = [web EXCEPT !.uses = @ \cup {v}, !.resp[t] = code]
             /\ HandlerDone(t, code)
        /\ UNCHANGED <<files, saved>>

\* the handler's call on reportAgent; a nil reportAgent makes the call panic,
\* which ends the request
HandlerUse(t) ==
    /\ pc[t] = "h_use"
    /\ \E v \in web.visible[t] :
         IF v = NoAgent
         THEN /\ web' = [web EXCEPT !.resp[t] = 500]
              /\ HandlerDone(t, 500)
              /\ UNCHANGED <<lookup, files, saved>>
         ELSE IF web.req[t].kind = "list" THEN UseList(t, v)
         ELSE IF web.req[t].kind = "generate" THEN UseGenerate(t, v)
         ELSE UseView(t, v)
    /\ UNCHANGED <<fixedVars, now, agentVars, od, requests, loops>>

HandlerAction(t) ==
    HandlerEnter(t) \/ HandlerCheck(t) \/ HandlerNew(t) \/ HandlerUse(t)

\* CallbackHandler after config.Consumer.AuthorizeToken succeeded: the access
\* token and secret of user u go into u's session
CallbackHandler(u) ==
    /\ web.session[u] = NoSession
    /\ web' = [web EXCEPT !.session[u] = [accessToken |-> u, accessSecret |-> u]]
    /\ UNCHANGED <<fixedVars, now, agentVars, callVars, loops, files, saved>>

\* LogoutHandler: the session's values are cleared
LogoutHandler(u) ==
    /\ web.session[u] # NoSession
    /\ web' = [web EXCEPT !.session[u] = NoSession]
    /\ UNCHANGED <<fixedVars, now, agentVars, callVars, loops, files, saved>>

(***************************************************************************)
(* GenerateReport of the text-generation clients (aifoundry, which the agent *)
(* calls, and mistral).                                                      *)
(***************************************************************************)
Backends == {"aifoundry", "mistral"}

\* MaxTokens of the report request
ReportMaxTokens == 4000

\* Temperature of the report request, in tenths
ReportTemperature == 7

\* getReportSystemPrompt(reportType): the prompt for weekly reports, the one
\* for monthly reports, or the general one
SystemPrompt(rt) ==
    IF rt = Weekly THEN "weekly" ELSE IF rt = Monthly THEN "monthly" ELSE "general"

\* formatBoardData(boardData): the board's name, its lists, cards, members
\* and recent actions
FormatBoardData(data) ==
    [name |-> data.board.name, lists |-> data.lists.items,
     cards |-> data.cards.items, members |-> data.members.items,
     actions |-> data.activities]

\* the mutant of ChatRequest that gives monthly reports twice the tokens
ChatRequestByType(backend, data, rt) ==
    [backend |-> backend,
     system |-> SystemPrompt(rt),
     user |-> FormatBoardData(data),
     temperature |-> ReportTemperature,
     max_tokens |-> IF rt = Monthly THEN 2 * ReportMaxTokens ELSE ReportMaxTokens]

\* the chat-completion request GenerateReport sends
ChatRequest(backend, data, rt) ==
    [backend |-> backend,
     system |-> SystemPrompt(rt),
     user |-> FormatBoardData(data),
     temperature |-> ReportTemperature,
     max_tokens |-> ReportMaxTokens]

\* what comes back: the request fails, the response has no choice or no
\* content, or it carries a narrative
Completions == {"error", "nochoice"} \cup {"x", "y"}

\* GenerateReport(boardData, reportType) on a snapshot GetBoardData returned
GenerateCall ==
    /\ ~panicked
    /\ \E backend \in Backends, b \in Accessible, rt \in ReportTypes \cup {Daily} :
         \E ans \in {a \in TrelloAnswers(b) : GetBoardData(b, now, a).ok} :
           \E c \in Completions :
             lookup' = [op |-> "generate", backend |-> backend, rtype |-> rt,
                        request |-> ChatRequest(backend, GetBoardData(b, now, ans).data, rt),
                        ok |-> c \in {"x", "y"},
                        content |-> IF c \in {"x", "y"} THEN c ELSE ""]
    /\ UNCHANGED <<fixedVars, web, now, agentVars, pc, ret, od, requests, loops, files, saved>>

(***************************************************************************)
(* Specifications.                                                          *)
(***************************************************************************)
BothTypes == [Weekly |-> TRUE, Monthly |-> TRUE]

Schedules == [Weekly : BOOLEAN, Monthly : BOOLEAN]

Zones == (-MaxZone)..MaxZone

StartAction(t) ==
    StartLock(t) \/ StartCheck(t) \/ StartSet(t) \/ StartSpawn(t) \/ StartReturn(t)

StopAction(t) ==
    StopLock(t) \/ StopCheck(t) \/ StopClose(t) \/ StopWait(t) \/ StopReturn(t)

LoopAction(l) ==
    \/ LoopEntry(l) \/ CheckWeekly(l) \/ CheckMonthly(l) \/ GetBoards(l)
    \/ FetchBoardData(l) \/ GenerateNarrative(l) \/ SavePeriodic(l)
    \/ SelectTick(l) \/ SelectStop(l)

OnDemandAction(t) == OdDetails(t) \/ OdData(t) \/ OdGenerate(t) \/ OdSave(t)

\* Start and Stop called from several goroutines while the loop runs its
\* cycles; the process starts on a Monday that is the 1st of the month
Init ==
    InitAgent([lists |-> {<<B1>>}, faults |-> {"none", "fetch", "boards"},
               contents |-> {<<"x">>}],
              {BothTypes}, {0}, {Mon1Apr})

Next ==
    \/ \E t \in Controllers : StartAction(t) \/ StopAction(t)
    \/ \E l \in LoopIds : LoopAction(l)
    \/ ClockTick

Spec == Init /\ [][Next]_vars

\* One Start on each of several dates, zones and schedules, against an
\* account with the single board B1 whose pipeline never fails
DueInit ==
    InitAgent([lists |-> {<<B1>>}, faults |-> {"none"}, contents |-> {<<"x">>}],
              Schedules, Zones, {Mon8Jan, Thu1Feb, Mon1Apr, Tue15Oct})

DueNext ==
    \/ StartAction("t1")
    \/ \E l \in LoopIds :
         \/ LoopEntry(l) \/ CheckWeekly(l) \/ CheckMonthly(l) \/ GetBoards(l)
         \/ FetchBoardData(l) \/ GenerateNarrative(l) \/ SavePeriodic(l)
         \/ SelectTick(l)
    \/ ClockTick

DueSpec == DueInit /\ [][DueNext]_vars

\* One Start on Monday 2024-04-01, against an account with two boards where
\* GetBoards and every step of a board's pipeline may fail
FaultInit ==
    InitAgent([lists |-> {<<B1, B2>>, <<B2, B1>>}, faults |-> Faults \cup {"boards"},
               contents |-> {<<"x">>}],
              {BothTypes}, {0}, {Mon1Apr})

FaultNext ==
    \/ StartAction("t1")
    \/ \E l \in LoopIds :
         \/ LoopEntry(l) \/ CheckWeekly(l) \/ CheckMonthly(l) \/ GetBoards(l)
         \/ FetchBoardData(l) \/ GenerateNarrative(l) \/ SavePeriodic(l)
         \/ SelectTick(l)
    \/ ClockTick

FaultSpec == FaultInit /\ [][FaultNext]_vars

\* One Start on Monday 2024-04-01 in each zone, against an account with the
\* board B1, while a request thread generates reports on demand
ReportInit ==
    InitAgent([lists |-> {<<B1>>}, faults |-> {"none"}, contents |-> {<<"x">>}],
              {BothTypes}, Zones, {Mon1Apr})

ReportNext ==
    \/ StartAction("t1")
    \/ \E t \in Requesters : OnDemandAction(t)
    \/ \E l \in LoopIds :
         \/ LoopEntry(l) \/ CheckWeekly(l) \/ CheckMonthly(l) \/ GetBoards(l)
         \/ FetchBoardData(l) \/ GenerateNarrative(l) \/ SavePeriodic(l)
         \/ SelectTick(l)
    \/ ClockTick

ReportSpec == ReportInit /\ [][ReportNext]_vars

\* The report store alone, from the empty directory NewReportStore leaves,
\* in a process started on Sunday 2024-03-31 in each zone: the reports the
\* agent can build are saved and looked up while foreign files come and go
StoreInit ==
    InitAgent([lists |-> {<<B1>>}, faults |-> {"none"}, contents |-> {<<"x">>, <<"y">>}],
              {BothTypes}, Zones, {Sun31Mar})

StoreNext == StoreSave \/ StoreGet \/ ForeignWrite \/ StoreClock

StoreSpec == StoreInit /\ [][StoreNext]_vars

\* GetBoardData for the boards B1 and B2 as time passes, each of its
\* requests failing or not
SnapshotInit ==
    InitAgent([lists |-> {<<B1, B2>>}, faults |-> {"none"}, contents |-> {<<"x">>}],
              {BothTypes}, Zones, {Mon1Apr})

SnapshotNext == SnapshotCall \/ StoreClock

SnapshotSpec == SnapshotInit /\ [][SnapshotNext]_vars

\* Every call of the report store, from the empty directory, for an account
\* with the boards B1 and B12, while files may lose their read permission
ListInit ==
    InitAgent([lists |-> {<<B1, B12>>}, faults |-> {"none"}, contents |-> {<<"x">>}],
              {BothTypes}, {0}, {Sun31Mar})

ListNext ==
    \/ StoreSave \/ StoreGet \/ StoreByBoard \/ StoreByType \/ StoreDelete
    \/ ForeignChmod \/ StoreClock

ListSpec == ListInit /\ [][ListNext]_vars

\* GenerateReportOnDemand called from a request thread on an agent that was
\* never started, for an account with the boards B1 and B2, as time passes
OnDemandInit ==
    InitAgent([lists |-> {<<B1, B2>>}, faults |-> {"none"}, contents |-> {<<"x">>}],
              {BothTypes}, Zones, {Sun31Mar})

OnDemandNext ==
    \/ \E t \in Requesters : OnDemandAction(t)
    \/ ClockTick

OnDemandSpec == OnDemandInit /\ [][OnDemandNext]_vars

\* Report-related requests served concurrently by the web application
HandlerInit ==
    InitAgent([lists |-> {<<B1>>}, faults |-> {"none"}, contents |-> {<<"x">>}],
              {BothTypes}, {0}, {Mon1Apr})

HandlerNext ==
    \/ \E t \in Threads : HandlerAction(t)
    \/ \E u \in Users : CallbackHandler(u) \/ LogoutHandler(u)

HandlerSpec == HandlerInit /\ [][HandlerNext]_vars

\* The text-generation clients called for reports of the boards B1 and B2
GenerateInit ==
    InitAgent([lists |-> {<<B1, B2>>}, faults |-> {"none"}, contents |-> {<<"x">>}],
              {BothTypes}, Zones, {Mon1Apr})

GenerateNext == GenerateCall \/ StoreClock

GenerateSpec == GenerateInit /\ [][GenerateNext]_vars

\* One Start and then Stop calls, on Monday 2024-04-01, against an account
\* with the boards B1 and B2 whose pipelines never fail, as time passes
StopInit ==
    InitAgent([lists |-> {<<B1, B2>>}, faults |-> {"none"}, contents |-> {<<"x">>}],
              {BothTypes}, {0}, {Mon1Apr})

StopNext ==
    \/ StartAction("t1")
    \/ \E t \in Controllers : StopAction(t)
    \/ \E l \in LoopIds : LoopAction(l)
    \/ ClockTick

StopSpec == StopInit /\ [][StopNext]_vars

\* Start, Stop and the loop's first cycle (weekly reports only) on Monday
\* 2024-04-01 for the board B1, while a request thread generates reports on demand and looks reports up
\* the on-demand calls of a behaviour of ServeSpec
MaxServed == 1

ServeInit ==
    InitAgent([lists |-> {<<B1>>}, faults |-> {"none"}, contents |-> {<<"x">>}],
              {[Weekly |-> TRUE, Monthly |-> FALSE]}, {0}, {Mon1Apr})

ServeNext ==
    \/ StartAction("t1")
    \/ StopAction("t2")
    \/ \E l \in LoopIds :
         \/ LoopEntry(l) \/ CheckWeekly(l) \/ CheckMonthly(l) \/ GetBoards(l)
         \/ FetchBoardData(l) \/ GenerateNarrative(l) \/ SavePeriodic(l)
         \/ SelectStop(l)
    \/ \E t \in Requesters :
         \/ requests < MaxServed /\ OdDetails(t)
         \/ OdData(t) \/ OdGenerate(t) \/ OdSave(t)

ServeSpec == ServeInit /\ [][ServeNext]_vars

\* Start calls by t1, Stop calls by t1 and t2, the loop and the clock, with the
\* scheduling the Go runtime gives: a goroutine that can take its next step
\* takes it, and every remote call and store write of the loop returns.  No
\* fairness is put on StartLock and StopLock: a thread need not call, and
\* which of two waiting threads gets the mutex is open.
LiveInit ==
    InitAgent([lists |-> {<<B1>>}, faults |-> {"none"}, contents |-> {<<"x">>}],
              {[Weekly |-> TRUE, Monthly |-> FALSE]}, {0}, {Mon1Apr})

LiveNext ==
    \/ StartAction("t1")
    \/ \E t \in Controllers : StopAction(t)
    \/ \E l \in LoopIds : LoopAction(l)
    \/ ClockTick

\* the steps of a Start or Stop call that holds the mutex
InStart(t) == StartCheck(t) \/ StartSet(t) \/ StartSpawn(t) \/ StartReturn(t)

InStop(t) == StopCheck(t) \/ StopClose(t) \/ StopWait(t) \/ StopReturn(t)

Fairness ==
    /\ \A t \in Controllers : WF_vars(InStart(t)) /\ WF_vars(InStop(t))
    /\ \A l \in LoopIds : WF_vars(LoopAction(l))

LiveSpec == LiveInit /\ [][LiveNext]_vars /\ Fairness

(***************************************************************************)
(* Claims about the start/stop lifecycle (checked under Spec).              *)
(***************************************************************************)
InCycle(l) ==
    loops[l].pc \in {"check_weekly", "check_monthly", "boards", "fetch",
                     "generate", "save"}

\* C1: a Start that finds the agent running returns "already running", spawns
\* no loop and leaves exactly one loop alive; a Stop that finds the
\* agent not running (so also one never started) returns "not running" and
\* leaves the agent stopped with no loop.
C1_StartStopExclusive ==
    [][\A t \in Controllers :
         /\ (pc[t] = "start_check" /\ running /\ pc'[t] # "start_check")
              => /\ ret'[t] = "already_running"
                 /\ pc'[t] = "start_return"
                 /\ AliveLoops' = AliveLoops
                 /\ Cardinality(AliveLoops') = 1
                 /\ running'
         /\ (pc[t] = "start_return" /\ ret[t] = "already_running")
              => /\ AliveLoops' = AliveLoops
                 /\ Cardinality(AliveLoops') = 1
                 /\ running'
         /\ (pc[t] = "stop_check" /\ ~running /\ pc'[t] # "stop_check")
              => /\ ret'[t] = "not_running"
                 /\ pc'[t] = "stop_return"
                 /\ ~running'
                 /\ AliveLoops' = {}
         /\ (pc[t] = "stop_return" /\ ret[t] = "not_running")
              => (~running' /\ AliveLoops' = {})
      ]_vars

\* a second Start was refused while the first one's loop was in a cycle
C1_Witness_AlreadyRunning ==
    \E t \in Controllers, l \in LoopIds :
        /\ pc[t] = "idle" /\ ret[t] = "already_running"
        /\ AliveLoops = {l} /\ InCycle(l)

\* a Stop was refused on an agent no Start call ever started
C1_Witness_NeverStarted ==
    \E t \in Controllers :
        pc[t] = "idle" /\ ret[t] = "not_running" /\ ~started /\ ~running

\* both refusals in one run: one thread's Stop was refused, the other's
\* second Start was refused while the loop was in a cycle
C1_Witness ==
    /\ C1_Witness_AlreadyRunning
    /\ \E u \in Controllers : pc[u] = "idle" /\ ret[u] = "not_running"

\* C2: under every interleaving of Start and Stop calls at most one loop is
\* alive, the running flag is true exactly when one loop is alive whenever no
\* Start or Stop call is in progress, and no stop channel is closed twice.
C2_ConsistentLifecycle ==
    /\ Cardinality(AliveLoops) <= 1
    /\ wg = Cardinality(AliveLoops)
    /\ (\A t \in Controllers : pc[t] = "idle")
         => (running <=> Cardinality(AliveLoops) = 1)
    /\ ~panicked

\* one thread waits in Stop for the loop, which is still in a cycle, after
\* the other thread's Start was refused
C2_Witness ==
    \E t, u \in Controllers, l \in LoopIds :
        /\ t # u
        /\ pc[t] = "stop_wait"
        /\ ret[u] = "already_running"
        /\ AliveLoops = {l} /\ InCycle(l)

\* C3: when Stop returns success the loop has exited, no cycle is in progress
\* and the agent is stopped; and while the agent is stopped no loop exists
\* that could begin a cycle, until a Start sets it running again.
C3_StopWaitsForLoop ==
    /\ \A t \in Controllers :
         (pc[t] = "stop_return" /\ ret[t] = "ok")
           => (AliveLoops = {} /\ ~running /\ \A l \in LoopIds : ~InCycle(l))
    /\ ~running => AliveLoops = {}

\* a Stop is returning success after the loop it stopped had saved a report
C3_Witness ==
    \E t \in Controllers :
        pc[t] = "stop_return" /\ ret[t] = "ok" /\ DOMAIN files # {}

(***************************************************************************)
(* Claims about the due-check cycle (checked under DueSpec).                *)
(***************************************************************************)
\* the local calendar date of instant t
LocalDate(t) == Civil(LocalDay(t, tz))

CalendarDate(y, m, d) == [year |-> y, month |-> m, day |-> d]

\* the Mondays among the dates the runs of DueSpec see
IsKnownMonday(c) ==
    c \in {CalendarDate(2024, 1, 8), CalendarDate(2024, 4, 1),
           CalendarDate(2024, 10, 14)}

\* C4: in a due-check cycle the weekly generation is triggered exactly when
\* the weekly flag is set and the day is a Monday, the monthly one exactly
\* when the monthly flag is set and the day is the 1st; both on Monday
\* 2024-04-01 with both flags, neither on Tuesday 2024-10-15.
C4_DuePolicy ==
    \A l \in LoopIds :
      LET lp == loops[l]
          date == LocalDate(lp.cnow)
      IN  lp.pc # "dead" /\ lp.cycles > 0 =>
            /\ lp.trigW # "unset" =>
                 (lp.trigW = "yes" <=> schedule.Weekly /\ Weekday(lp.cnow, tz) = Monday)
            /\ lp.trigM # "unset" =>
                 (lp.trigM = "yes" <=> schedule.Monthly /\ date.day = 1)
            /\ lp.trigW = "yes" => IsKnownMonday(date)
            /\ (lp.pc \in {"boards", "fetch", "generate", "save"})
                 => \/ lp.rtype = Weekly /\ lp.trigW = "yes" /\ lp.trigM = "unset"
                    \/ lp.rtype = Monthly /\ lp.trigM = "yes"
            /\ (date = CalendarDate(2024, 4, 1) /\ schedule = BothTypes)
                 => lp.trigW \in {"unset", "yes"} /\ lp.trigM \in {"unset", "yes"}
            /\ date = CalendarDate(2024, 10, 15)
                 => lp.trigW \in {"unset", "no"} /\ lp.trigM \in {"unset", "no"}
            /\ lp.pc = "select" => lp.trigW # "unset" /\ lp.trigM # "unset"

\* a cycle on Monday 2024-04-01 with both flags set has triggered both types
C4_Witness ==
    \E l \in LoopIds :
        /\ loops[l].pc = "select"
        /\ LocalDate(loops[l].cnow) = CalendarDate(2024, 4, 1)
        /\ schedule = BothTypes
        /\ loops[l].trigW = "yes" /\ loops[l].trigM = "yes"

\* a cycle on Tuesday 2024-10-15 with both flags set has triggered neither
C4_Witness_Tuesday15 ==
    \E l \in LoopIds :
        /\ loops[l].pc = "select"
        /\ LocalDate(loops[l].cnow) = CalendarDate(2024, 10, 15)
        /\ schedule = BothTypes
        /\ loops[l].trigW = "no" /\ loops[l].trigM = "no"

\* the reports the files of the store hold
StoredReports == {UnmarshalReport(files[n].data).report : n \in DOMAIN files}

WeeklyOnly == [Weekly |-> TRUE, Monthly |-> FALSE]

\* C6: a loop reaches its first wait only after a due-check cycle; with
\* weekly=true, monthly=false, the single board B1, no failure, and the whole
\* run so far on the Monday the process started on, the store then holds
\* exactly one report, weekly and of board B1 (so no monthly one, also on
\* Monday 2024-04-01).
C6_FirstCycleAtOnce ==
    \A l \in LoopIds :
      loops[l].pc = "select" =>
        /\ loops[l].cycles >= 1
        /\ ( /\ schedule = WeeklyOnly
             /\ env.lists = {<<B1>>} /\ env.faults = {"none"}
             /\ Weekday(boot, tz) = Monday
             /\ LocalDay(now, tz) = LocalDay(boot, tz) )
           => /\ Cardinality(DOMAIN files) = 1
              /\ \A r \in StoredReports : r.Type = Weekly /\ r.BoardID = B1
              /\ loops[l].cycles = 1

\* the first wait of a weekly-only agent started on Monday 2024-04-01
C6_Witness ==
    \E l \in LoopIds :
        /\ loops[l].pc = "select" /\ loops[l].cycles = 1
        /\ schedule = WeeklyOnly
        /\ LocalDate(boot) = CalendarDate(2024, 4, 1)
        /\ LocalDay(now, tz) = LocalDay(boot, tz)
        /\ Cardinality(DOMAIN files) = 1
        /\ \A r \in StoredReports : r.Type = Weekly /\ r.BoardID = B1

(***************************************************************************)
(* Claims about failures in a cycle (checked under FaultSpec).              *)
(***************************************************************************)
\* the store holds a report of board b and type rt
HasReport(b, rt) ==
    \E n \in DOMAIN files :
        LET u == UnmarshalReport(files[n].data)
        IN  files[n].readable /\ u.ok /\ u.report.BoardID = b /\ u.report.Type = rt

\* the boards of loop lp's list, up to index k, whose pipeline does not fail
\* have their report saved
SavedUpTo(lp, k) ==
    \A i \in 1..k :
        lp.fault[i] = "none" => i \in lp.done /\ HasReport(lp.boards[i], lp.rtype)

\* C5: whatever step fails for a board, the for loop visits every board of
\* the list: when it ends, each board whose own pipeline does not fail has
\* its report in the store; the cycle then goes on to the monthly check and
\* to the loop's wait, and the loop stays alive.
C5_BoardIsolation ==
    /\ \A l \in LoopIds :
         LET lp == loops[l]
         IN  /\ lp.pc \in {"fetch", "generate", "save"}
                  => lp.idx \in 1..Len(lp.boards) /\ SavedUpTo(lp, lp.idx - 1)
             /\ (lp.pc \in {"check_monthly", "select"} /\ lp.boards # <<>>)
                  => lp.idx = Len(lp.boards) + 1 /\ SavedUpTo(lp, Len(lp.boards))
             /\ lp.pc = "select" => lp.trigW # "unset" /\ lp.trigM # "unset"
    /\ (\E t \in Controllers : ret[t] = "ok") => AliveLoops # {}

\* board A's snapshot fetch failed and board B, after it in the list, has its
\* report in the store at the end of the cycle
C5_Witness ==
    \E l \in LoopIds :
        /\ loops[l].pc = "select"
        /\ Len(loops[l].boards) = 2
        /\ loops[l].fault[1] = "fetch" /\ loops[l].fault[2] = "none"
        /\ 2 \in loops[l].done
        /\ HasReport(loops[l].boards[2], loops[l].rtype)
        /\ ~HasReport(loops[l].boards[1], loops[l].rtype)

(***************************************************************************)
(* Claims about report identifiers (checked under ReportSpec).              *)
(***************************************************************************)
\* {boardID}_{type}_{date}, date the local calendar day of instant t
DerivedId(b, rt, t) == b \o Underscore \o rt \o Underscore \o FormatDate(t, tz)

\* the report file n holds
Stored(n) == UnmarshalReport(files[n].data)

\* C7: every report in the store has the ID {boardID}_{type}_{date} of its own
\* generation timestamp's calendar day, which is the stem of its file's name.
C7_IdIsGenerationDay ==
    \A n \in DOMAIN files :
        Stored(n).ok =>
            LET r == Stored(n).report
            IN  /\ r.ID = DerivedId(r.BoardID, r.Type, r.GeneratedAt)
                /\ n = r.ID \o DotJson

\* the same, for the reports GenerateReportOnDemand saved (those whose period
\* ends at the generation timestamp)
C7_OnDemandIdIsGenerationDay ==
    \A n \in DOMAIN files :
        (Stored(n).ok /\ Stored(n).report.EndDate = Stored(n).report.GeneratedAt) =>
            LET r == Stored(n).report
            IN  /\ r.ID = DerivedId(r.BoardID, r.Type, r.GeneratedAt)
                /\ n = r.ID \o DotJson

\* C8: a report is saved under the name derived from its board, type and
\* generation day, so that the store holds one file per triple; and a report
\* that replaces another one of the same triple has the same ID.
C8_SameTripleSameId ==
    [][\A n \in DOMAIN files' :
         (n \notin DOMAIN files \/ files'[n] # files[n]) =>
            LET new == UnmarshalReport(files'[n].data)
            IN  new.ok =>
                  /\ n = SaveFileName(new.report, tz)
                  /\ \A m \in DOMAIN files' :
                       LET o == UnmarshalReport(files'[m].data).report
                       IN  ( /\ UnmarshalReport(files'[m].data).ok
                             /\ o.BoardID = new.report.BoardID
                             /\ o.Type = new.report.Type
                             /\ LocalDay(o.GeneratedAt, tz)
                                  = LocalDay(new.report.GeneratedAt, tz) )
                           => m = n
                  /\ (n \in DOMAIN files /\ Stored(n).ok)
                       => new.report.ID = Stored(n).report.ID
      ]_vars

\* the storage half of C8 alone: one file per (board, type, generation day),
\* holding the last report saved for it
C8_OneFilePerTriple ==
    \A n \in DOMAIN files :
        Stored(n).ok =>
            /\ n = SaveFileName(Stored(n).report, tz)
            /\ \A m \in DOMAIN files :
                 ( /\ Stored(m).ok
                   /\ Stored(m).report.BoardID = Stored(n).report.BoardID
                   /\ Stored(m).report.Type = Stored(n).report.Type
                   /\ LocalDay(Stored(m).report.GeneratedAt, tz)
                        = LocalDay(Stored(n).report.GeneratedAt, tz) )
                 => m = n

(***************************************************************************)
(* Claims about lookup by ID (checked under StoreSpec).                     *)
(***************************************************************************)
\* the files that hold a report with the embedded ID id
FilesWithId(id) ==
    {n \in DOMAIN files :
        /\ ~IsDir(files[n])
        /\ files[n].readable
        /\ Stored(n).ok
        /\ Stored(n).report.ID = id}

\* the files GetReport has to skip: unreadable, empty or not a report
SkippedFiles ==
    {n \in DOMAIN files :
        \/ ~files[n].readable
        \/ files[n].data.kind \in {"empty", "text", "object"}}

\* C9: right after SaveReport(R) succeeded, GetReport(R.ID) returns a report
\* equal to R in all fields, whatever else the store holds.
C9_RoundTrip ==
    (lookup.op = "save" /\ lookup.ok) =>
        GetReport(files, lookup.report.ID) = [ok |-> TRUE, report |-> lookup.report]

\* the round trip where no other file carries R's ID
C9_RoundTripUniqueId ==
    (lookup.op = "save" /\ lookup.ok /\ Cardinality(FilesWithId(lookup.report.ID)) = 1) =>
        GetReport(files, lookup.report.ID) = [ok |-> TRUE, report |-> lookup.report]

\* C10: GetReport(id) does not fail because of files that are unreadable,
\* empty or not report serializations: whenever a file holds a valid report
\* with the embedded ID id, the call returns such a report.
C10_ScanTolerance ==
    (lookup.op = "get" /\ FilesWithId(lookup.id) # {}) =>
        /\ lookup.ok
        /\ lookup.report.ID = lookup.id
        /\ \E n \in FilesWithId(lookup.id) : lookup.report = Stored(n).report

\* a saved report is found although an unreadable, empty or malformed file
\* precedes it in the directory
C10_Witness ==
    /\ lookup.op = "get"
    /\ lookup.ok
    /\ lookup.id # <<>>
    /\ \E n \in SkippedFiles, m \in FilesWithId(lookup.id) : NameLess(n, m)

\* the same with a file left empty by a SaveReport whose write failed
C10_Witness_TruncatedSave ==
    /\ lookup.op = "get"
    /\ lookup.ok
    /\ lookup.id # <<>>
    /\ \E n \in DOMAIN files \ ForeignNames, m \in FilesWithId(lookup.id) :
         files[n] = TruncatedFile /\ NameLess(n, m)

C11_Witness_EmptyStore ==
    /\ lookup.op = "get"
    /\ ~lookup.ok
    /\ DOMAIN files = {}

(***************************************************************************)
(* Claims about deletion and listing (checked under ListSpec).              *)
(***************************************************************************)
\* the files holding a report SaveReport wrote with the ID id
SavedWithId(id) == {n \in DOMAIN saved : saved[n].ID = id}

\* C12: DeleteReport(id) returns not-found when no stored report has the ID
\* id; when a saved report has it, the call succeeds (unless the file system
\* refuses the removal) and GetReport(id) then returns not-found.
C12_DeleteById ==
    [][(lookup'.op = "delete" /\ (lookup' # lookup \/ files' # files)) =>
          IF SavedWithId(lookup'.id) = {}
          THEN ~lookup'.ok /\ files' = files
          ELSE \/ lookup'.ok /\ ~GetReport(files', lookup'.id).ok
               \/ DeleteReport(files, lookup'.id, "fail").err = "remove"
      ]_vars

\* the second half of C12 alone: deleting by the ID of a saved report
C12_StoredIdIsDeleted ==
    [][(lookup'.op = "delete" /\ lookup' # lookup /\ SavedWithId(lookup'.id) # {}) =>
          lookup'.ok /\ ~GetReport(files', lookup'.id).ok
      ]_vars

\* a step of DeleteReport
DeleteStep == lookup'.op = "delete" /\ (lookup' # lookup \/ files' # files)

\* the files a step removes
Removed == DOMAIN files \ DOMAIN files'

\* a step leaves the files it does not remove as they were and adds none
OthersKept ==
    /\ DOMAIN files' \subseteq DOMAIN files
    /\ \A n \in DOMAIN files' : files'[n] = files[n]

\* C27: DeleteReport(id) removes at most one file and touches no other, a
\* file it removes holds a report whose embedded ID is id, and a call that
\* returns an error leaves the directory as it was.
C27_DeletesOnlyTheIdentified ==
    [][DeleteStep =>
          /\ Cardinality(Removed) <= 1
          /\ OthersKept
          /\ \A n \in Removed : Stored(n).ok /\ Stored(n).report.ID = lookup'.id
          /\ ~lookup'.ok => files' = files
      ]_vars

\* what holds of C27: at most one file goes, no other file is touched, and
\* an error leaves the directory as it was
C27_AtMostOneFile ==
    [][DeleteStep =>
          /\ Cardinality(Removed) <= 1
          /\ OthersKept
          /\ ~lookup'.ok => files' = files
      ]_vars

\* DeleteReport("weekly") has returned nil on a store that never held a
\* report with the ID "weekly", and no weekly report of board B1 is left
C27_Witness_TypeAsId ==
    /\ lookup.op = "delete" /\ lookup.id = Weekly /\ lookup.ok
    /\ ~HasReport(B1, Weekly)

BeginsWith(name, prefix) ==
    Len(name) >= Len(prefix) /\ SubSeq(name, 1, Len(prefix)) = prefix

EndsWith(name, suffix) ==
    /\ Len(name) >= Len(suffix)
    /\ SubSeq(name, Len(name) - Len(suffix) + 1, Len(name)) = suffix

Range(seq) == {seq[i] : i \in 1..Len(seq)}

Intact(n) == ~IsDir(files[n]) /\ files[n].readable /\ Stored(n).ok

\* the files of board b: named b, "_", anything, ".json"
BoardFiles(b) ==
    {n \in DOMAIN files :
        /\ Len(n) >= Len(b) + 1 + Len(DotJson)
        /\ BeginsWith(n, b \o Underscore)
        /\ EndsWith(n, DotJson)}

\* C13 as stated: a successful GetReportsByBoard(B) returns exactly the
\* reports of the files whose name begins with the board ID B.
C13_ByBoardPrefix ==
    (lookup.op = "byboard" /\ lookup.ok) =>
        Range(lookup.reports) =
            {Stored(n).report : n \in {m \in DOMAIN files : BeginsWith(m, lookup.id)}}

\* C13: GetReportsByBoard(B) succeeds when every file named B_*.json can be
\* read and parsed, and then returns exactly the reports of those files, one
\* each, among them every report saved for board B that is still there; the
\* files of a board whose ID only begins with B are not among them.
C13_ByBoardExact ==
    lookup.op = "byboard" =>
        IF \A n \in BoardFiles(lookup.id) : Intact(n)
        THEN /\ lookup.ok
             /\ Range(lookup.reports) = {Stored(n).report : n \in BoardFiles(lookup.id)}
             /\ Len(lookup.reports) = Cardinality(BoardFiles(lookup.id))
             /\ \A n \in DOMAIN saved :
                  saved[n].BoardID = lookup.id => saved[n] \in Range(lookup.reports)
             /\ \A i \in 1..Len(lookup.reports) : lookup.reports[i].BoardID = lookup.id
        ELSE ~lookup.ok

\* the reports of B1 are listed while the store also holds a report of B12
C13_Witness ==
    /\ lookup.op = "byboard"
    /\ lookup.id = B1
    /\ lookup.ok
    /\ Len(lookup.reports) >= 1
    /\ \E n \in DOMAIN saved : saved[n].BoardID = B12

\* the files of type rt: named anything, "_", rt, "_", anything, ".json"
TypeFiles(rt) ==
    LET mid == Underscore \o rt \o Underscore
    IN  {n \in DOMAIN files :
           /\ EndsWith(n, DotJson)
           /\ \E i \in 1..Len(n) :
                /\ i + Len(mid) - 1 <= Len(n) - Len(DotJson)
                /\ SubSeq(n, i, i + Len(mid) - 1) = mid}

\* the files the listing call recorded in l goes through
Listed(l) == IF l.op = "byboard" THEN BoardFiles(l.id) ELSE TypeFiles(l.id)

\* C14: when a file matched by GetReportsByBoard or GetReportsByType cannot
\* be read or parsed, the call fails and returns no report at all; the call
\* leaves the store as it was.
C14_ListingFailsAsAWhole ==
    [][(lookup'.op \in {"byboard", "bytype"} /\ lookup' # lookup) =>
          /\ files' = files
          /\ (\E n \in Listed(lookup') : ~Intact(n)) =>
                (~lookup'.ok /\ lookup'.reports = <<>>)
      ]_vars

\* a listing fails although one of the matched files holds a good report
C14_Witness ==
    /\ lookup.op \in {"byboard", "bytype"}
    /\ ~lookup.ok
    /\ \E n, m \in Listed(lookup) : ~Intact(n) /\ Intact(m)

\* the same where the bad file is one that cannot be read
C14_Witness_Unreadable ==
    /\ lookup.op = "bytype"
    /\ ~lookup.ok
    /\ \E n, m \in Listed(lookup) : ~files[n].readable /\ Stored(n).ok /\ Intact(m)

\* the same where the bad file was left empty by a failed SaveReport
C14_Witness_Unparsable ==
    /\ lookup.op = "byboard"
    /\ ~lookup.ok
    /\ \E n, m \in Listed(lookup) : files[n] = TruncatedFile /\ Intact(m)

\* the reports SaveReport wrote that have not been deleted or overwritten
LiveReports == {saved[n] : n \in DOMAIN saved}

\* C15: every report GetReport, GetReportsByBoard or GetReportsByType returns
\* is one SaveReport wrote and that has not since been deleted or
\* overwritten; no file of the store offers any other report.
C15_OnlySavedReports ==
    /\ (lookup.op = "get" /\ lookup.ok) => lookup.report \in LiveReports
    /\ (lookup.op \in {"byboard", "bytype"} /\ lookup.ok) =>
          Range(lookup.reports) \subseteq LiveReports
    /\ \A n \in DOMAIN files :
          Intact(n) => (n \in DOMAIN saved /\ Stored(n).report = saved[n])

\* a listing returns the one report left of the two saves made
C15_Witness ==
    /\ lookup.op = "bytype"
    /\ lookup.ok
    /\ Len(lookup.reports) >= 1
    /\ requests > Cardinality(DOMAIN files)

\* a deletion has just removed one report and left another
C15_Witness_AfterDelete ==
    /\ lookup.op = "delete"
    /\ lookup.ok
    /\ Cardinality(DOMAIN saved) = 1

(***************************************************************************)
(* Claims about the board snapshot (checked under SnapshotSpec).            *)
(***************************************************************************)
Required == {"board", "lists", "cards", "members"}

Answer(ans, f) ==
    IF f = "board" THEN ans.board.ok
    ELSE IF f = "lists" THEN ans.lists.ok
    ELSE IF f = "cards" THEN ans.cards.ok
    ELSE ans.members.ok

\* C16: GetBoardData fails, with the error of a failed request and without a
\* snapshot, when the board, list, card or member request fails; when only
\* the activity request fails it succeeds with what the four returned and an
\* empty activity list.
C16_SnapshotAsymmetry ==
    lookup.op = "snapshot" =>
        LET failed == {f \in Required : ~Answer(lookup.ans, f)}
        IN  IF failed # {}
            THEN /\ ~lookup.ok
                 /\ lookup.err \in failed
                 /\ lookup.data.nil
            ELSE /\ lookup.ok
                 /\ ~lookup.data.nil
                 /\ lookup.data.board = lookup.ans.board.value
                 /\ lookup.data.lists.items = lookup.ans.lists.value
                 /\ lookup.data.cards.items = lookup.ans.cards.value
                 /\ lookup.data.members.items = lookup.ans.members.value
                 /\ lookup.data.activities =
                      IF lookup.ans.activity.ok THEN lookup.ans.activity.value ELSE <<>>

\* only the activity request failed and the call succeeded
C16_Witness ==
    /\ lookup.op = "snapshot"
    /\ ~lookup.ans.activity.ok
    /\ \A f \in Required : Answer(lookup.ans, f)
    /\ lookup.ok
    /\ lookup.data.activities = <<>>
    /\ lookup.data.lists.items # <<>>

\* the member request failed and the call failed
C16_Witness_MembersFail ==
    /\ lookup.op = "snapshot"
    /\ ~lookup.ans.members.ok
    /\ ~lookup.ok
    /\ lookup.err = "members"

(***************************************************************************)
(* Claims about GenerateReportOnDemand (checked under OnDemandSpec).         *)
(***************************************************************************)
\* the reports a directory holds: what its readable, parsable files parse to
ReportsIn(fs) ==
    {<<n, UnmarshalReport(fs[n].data).report>> :
        n \in {m \in DOMAIN fs : /\ ~IsDir(fs[m])
                                  /\ fs[m].readable
                                  /\ UnmarshalReport(fs[m].data).ok}}

\* the step is one of thread t's GenerateReportOnDemand
OdStep(t) == pc'[t] # pc[t] \/ requests' # requests

\* the step makes t's call return
OdReturns(t) == OdStep(t) /\ pc'[t] = "idle"

\* C17: a GenerateReportOnDemand call that fails at any of its steps returns
\* an error and leaves the set of stored reports as it was, and the stored
\* reports change only in the save step, after the snapshot and the
\* narrative were obtained.
C17_AllOrNothing ==
    [][\A t \in Requesters :
         /\ OdReturns(t) /\ ret'[t] # "ok" =>
              /\ ret'[t] = "error"
              /\ ReportsIn(files') = ReportsIn(files)
         /\ OdStep(t) /\ ReportsIn(files') # ReportsIn(files) =>
              /\ pc[t] = "od_save"
              /\ od[t].content \in env.contents]_vars

\* the same for the failures that come before the file is opened for
\* writing: the directory itself is as it was
C17_NothingBeforeTheWrite ==
    [][\A t \in Requesters :
         /\ OdReturns(t) /\ ret'[t] # "ok"
              /\ (pc[t] = "od_save" => \A n \in DOMAIN files' : files'[n] # TruncatedFile) =>
              /\ ret'[t] = "error"
              /\ files' = files
         /\ OdStep(t) /\ files' # files =>
              /\ pc[t] = "od_save"
              /\ od[t].content \in env.contents]_vars

\* one calendar month before instant t on the local wall clock: the same
\* time of day on the day of the previous month with the same number (counted
\* on into the next month where the previous month is shorter)
MonthBefore(t) ==
    LET c == LocalDate(t)
    IN  (DayNumber(c.year, c.month - 1, 1) + c.day - 1) * TicksPerDay
          + TickOfDay(t, tz) - tz

\* C18: GenerateReportOnDemand(B1, monthly) on an agent that is not running,
\* with B1 and B2 accessible, writes exactly one file, a report for B1 whose
\* period starts one month before its generation instant; no step of an
\* on-demand call changes the agent's running state or its loops, and every
\* other file of the store stays as it was.
C18_OnDemandOnStoppedAgent ==
    [][\A t \in Requesters :
         /\ OdStep(t) =>
              /\ ~running /\ ~running'
              /\ UNCHANGED <<mutex, stopClosed, wg, started, loops>>
              /\ pc[t] # "od_save" => files' = files
         /\ (/\ OdStep(t)
             /\ pc[t] = "od_save"
             /\ ret'[t] = "ok"
             /\ od[t].board = B1
             /\ od[t].rtype = Monthly) =>
              \E n \in DOMAIN files' :
                 /\ DOMAIN files' = DOMAIN files \cup {n}
                 /\ \A m \in DOMAIN files \ {n} : files'[m] = files[m]
                 /\ BeginsWith(n, B1 \o Underscore)
                 /\ LET u == UnmarshalReport(files'[n].data)
                    IN  /\ u.ok
                        /\ u.report.BoardID = B1
                        /\ u.report.Type = Monthly
                        /\ u.report.GeneratedAt = od[t].now
                        /\ u.report.EndDate = od[t].now
                        /\ u.report.StartDate = MonthBefore(od[t].now)]_vars

\* the call for (B1, monthly) returned its report on 1 April, the period
\* starting on 1 March, while the store keeps the report of board B2 that an
\* earlier call wrote, and the agent was never started
C18_Witness ==
    /\ ~running /\ ~started
    /\ \E t \in Requesters : pc[t] = "idle" /\ ret[t] = "ok"
    /\ \E n \in DOMAIN files :
         /\ BeginsWith(n, B1 \o Underscore \o Monthly)
         /\ Stored(n).ok
         /\ Stored(n).report.GeneratedAt = now
         /\ LocalDate(now) = CalendarDate(2024, 4, 1)
         /\ LocalDate(Stored(n).report.StartDate) = CalendarDate(2024, 3, 1)
    /\ \E n \in DOMAIN files : BeginsWith(n, B2 \o Underscore) /\ Stored(n).ok
    /\ Cardinality(DOMAIN files) = 2

(***************************************************************************)
(* Claims about the reports' periods (checked under ReportSpec).             *)
(***************************************************************************)
\* midnight, on the local wall clock, of the calendar day of instant t
LocalMidnight(t) == LocalDay(t, tz) * TicksPerDay - tz

\* the period [start, end] is the one of a report of type rt ending at end
WindowOf(rt, start, end) ==
    IF rt = Weekly THEN start = AddDays(end, -7) ELSE start = MonthBefore(end)

\* the file SaveReport writes for a report of board b and type rt built now
FileBuiltNow(b, rt) ==
    SaveFileName([BoardID |-> b, Type |-> rt, GeneratedAt |-> now], tz)

\* the step saves the report of loop l's cycle, whose period ends at end
PeriodicSaveEnding(l, end) ==
    /\ loops[l].pc = "save"
    /\ loops'[l] # loops[l]
    => LET n == FileBuiltNow(loops[l].boards[loops[l].idx], loops[l].rtype)
           u == UnmarshalReport(files'[n].data)
       IN  /\ u.ok
           /\ u.report.Type = loops[l].rtype
           /\ u.report.EndDate = end
           /\ WindowOf(u.report.Type, u.report.StartDate, u.report.EndDate)

\* the step saves the report of t's on-demand call, whose period ends at the
\* instant the call read the clock, which is its generation timestamp
OnDemandSaveEndingNow(t) ==
    /\ OdStep(t)
    /\ pc[t] = "od_save"
    /\ ret'[t] = "ok"
    => LET n == SaveFileName([BoardID |-> od[t].board, Type |-> od[t].rtype,
                              GeneratedAt |-> od[t].now], tz)
           u == UnmarshalReport(files'[n].data)
       IN  /\ u.ok
           /\ u.report.Type = od[t].rtype
           /\ u.report.EndDate = od[t].now
           /\ u.report.GeneratedAt = od[t].now
           /\ WindowOf(u.report.Type, u.report.StartDate, u.report.EndDate)

\* C19: a weekly report's period is [end - 7 days, end] and a monthly
\* report's [end - 1 calendar month, end]; a periodic report's end is midnight
\* of the calendar day of its cycle's current time, an on-demand report's end
\* is the instant of the call, equal to its generation timestamp.
C19_DateWindows ==
    [][/\ \A l \in LoopIds : PeriodicSaveEnding(l, LocalMidnight(loops[l].cnow))
       /\ \A t \in Requesters : OnDemandSaveEndingNow(t)]_vars

\* the same with the periodic end at midnight UTC of the cycle's UTC day,
\* which is what Truncate(24 * time.Hour) yields
C19_DateWindowsUtc ==
    [][/\ \A l \in LoopIds : PeriodicSaveEnding(l, Truncate24h(loops[l].cnow))
       /\ \A t \in Requesters : OnDemandSaveEndingNow(t)]_vars

(***************************************************************************)
(* Claims about the web application's agent (checked under HandlerSpec).     *)
(***************************************************************************)
\* C20: under any interleaving of concurrent report-related requests the web
\* application creates at most one Agent, and every request uses that one.
C20_OneAgentPerProcess ==
    /\ web.agents <= 1
    /\ Cardinality(web.uses) <= 1

\* the same for requests that are served one after the other
C20_OneAgentWhenSerial ==
    ~web.overlap =>
        /\ web.agents <= 1
        /\ Cardinality(web.uses) <= 1

\* two requests were served one after the other by the one agent
C20_Witness_Serial ==
    /\ ~web.overlap
    /\ requests = 2
    /\ web.agents = 1
    /\ web.uses = {1}
    /\ Cardinality({t \in Threads : web.req[t].kind # "none" /\ web.resp[t] \in {200, 303}}) = 2

\* the request is a generate request without a board ID, without a report
\* type or with a report type that is neither weekly nor monthly
BadGenerate(r) ==
    /\ r.kind = "generate"
    /\ r.board = <<>> \/ r.rtype = <<>> \/ r.rtype \notin ReportTypes

\* the step answers a request before its handler touches reportAgent
Rejects == requests' # requests /\ pc' = pc

\* the step constructs no agent, calls no remote service and leaves the store
\* alone
NoWork ==
    /\ web'.agents = web.agents
    /\ web'.reportAgent = web.reportAgent
    /\ web'.uses = web.uses
    /\ web'.remote = web.remote
    /\ files' = files
    /\ lookup' = lookup

\* C21: a generate request without a board ID or a report type, or with a
\* report type other than weekly and monthly, is answered with a client error
\* (4xx), and the step that answers it constructs no agent, makes no remote
\* call and stores no report.
C21_ValidatedBeforeWork ==
    [][/\ \A t \in Threads :
            BadGenerate(web'.req[t]) => web'.resp[t] \in 400..499
       /\ Rejects => NoWork]_vars

\* an authenticated generate request for report type "daily" got a 400 while
\* no agent exists and the store is empty
C21_Witness ==
    \E t \in Threads :
        /\ web.req[t].kind = "generate"
        /\ Authenticated(web.req[t].session)
        /\ web.req[t].board = B1
        /\ web.req[t].rtype = Daily
        /\ web.resp[t] = 400
        /\ pc[t] = "idle"
        /\ web.agents = 0
        /\ files = <<>>

\* C28: every Trello call made while serving a report request uses the
\* access token and secret of the session the request came with; a request
\* of U2 is never served with the credentials of U1.
C28_PerUserCredentials ==
    \A c \in web.remote :
        /\ c.creds = c.session
        /\ c.user = "U2" => c.creds.accessToken # "U1"

\* a generate request of U2 for B1, a board only U1's account can read, was
\* answered with the redirect to the new report
C28_Witness_ForeignBoard ==
    \E t \in Threads :
        /\ web.req[t].kind = "generate"
        /\ web.req[t].user = "U2"
        /\ web.req[t].board = B1
        /\ web.resp[t] = 303
        /\ pc[t] = "idle"

\* the request goroutine t serves came without the access token or without
\* the access secret
Unauthenticated(t) ==
    web.req[t].kind # "none" /\ ~Authenticated(web.req[t].session)

\* goroutine t takes a step inside its handler, past the checks
WorksFor(t) == pc[t] \in {"h_check", "h_new", "h_use"} /\ pc'[t] # pc[t]

\* C30: a report request whose session lacks the access token or secret is
\* answered with the redirect to the login page or a 401 and never gets past
\* the session check; every step that constructs the agent, calls the remote
\* service, writes the store or reads a stored report is taken for a request
\* that came with both values.
C30_AuthenticationGate ==
    [][/\ \A t \in Threads :
            Unauthenticated(t)' => pc'[t] = "idle" /\ web'.resp[t] \in {307, 401}
       /\ ~NoWork =>
            \E t \in Threads : WorksFor(t) /\ Authenticated(web.req[t].session)]_vars

\* U1 built the agent, logged out, and U1's next generate request got a 401,
\* the store still empty
C30_Witness_AfterLogout ==
    /\ web.agents = 1
    /\ web.creds[1].accessToken = "U1"
    /\ web.session["U1"] = NoSession
    /\ files = <<>>
    /\ \E t \in Threads :
          /\ web.req[t].user = "U1"
          /\ web.req[t].kind = "generate"
          /\ web.req[t].board = B1 /\ web.req[t].rtype = Weekly
          /\ Unauthenticated(t)
          /\ web.resp[t] = 401

(***************************************************************************)
(* Claims about the text-generation request (checked under GenerateSpec).    *)
(***************************************************************************)
\* C22 as stated: the request's token budget depends on the report type, a
\* weekly report's being strictly smaller than a monthly report's, and the
\* temperature is the same for both.
C22_BudgetByType ==
    lookup.op = "generate" /\ lookup.rtype = Weekly =>
        LET monthly == ChatRequest(lookup.backend, [board |-> [name |-> <<>>],
                          lists |-> ConvertSlice(<<>>), cards |-> ConvertSlice(<<>>),
                          members |-> ConvertSlice(<<>>), activities |-> <<>>], Monthly)
        IN  /\ lookup.request.max_tokens < monthly.max_tokens
            /\ lookup.request.temperature = monthly.temperature

\* C22: every report request, weekly or monthly, from either client carries
\* the same token budget of 4000 and the same temperature of 0.7; only the
\* system prompt depends on the report type.
C22_FixedBudget ==
    lookup.op = "generate" =>
        /\ lookup.request.max_tokens = 4000
        /\ lookup.request.temperature = 7
        /\ lookup.request.system =
             (IF lookup.rtype = Weekly THEN "weekly"
              ELSE IF lookup.rtype = Monthly THEN "monthly" ELSE "general")

\* a monthly report was requested from the client the agent uses
C22_Witness ==
    /\ lookup.op = "generate"
    /\ lookup.backend = "aifoundry"
    /\ lookup.rtype = Monthly
    /\ lookup.request.max_tokens = 4000
    /\ lookup.ok

(***************************************************************************)
(* Claims about the store as a whole (checked under ListSpec).               *)
(***************************************************************************)
\* the step changes or removes the content stored in file n
ContentChanged(n) == n \notin DOMAIN files' \/ files'[n].data # files[n].data

\* the step is a SaveReport writing to file n
SavesTo(n) == lookup'.op = "save" /\ n = SaveFileName(lookup'.report, tz)

\* C23: the content of a stored report changes or disappears only in a
\* DeleteReport or in a SaveReport for the same (board, type, day) file, and
\* only when that operation succeeds: the three lookups and every failed
\* operation leave every stored report as it was.
C23_StoredReportsImmutable ==
    [][\A n \in DOMAIN files :
          Stored(n).ok /\ ContentChanged(n) =>
              /\ lookup'.op = "delete" \/ SavesTo(n)
              /\ lookup'.ok]_vars

\* the same without the failed operations: a stored report changes or
\* disappears only in a DeleteReport that succeeds or in a SaveReport for its
\* own file, and never in a lookup
C23_ChangedBySaveOrDeleteOnly ==
    [][\A n \in DOMAIN files :
          Stored(n).ok /\ ContentChanged(n) =>
              \/ lookup'.op = "delete" /\ lookup'.ok
              \/ SavesTo(n)]_vars

(***************************************************************************)
(* Claims about stopping the loop (checked under Spec).                      *)
(***************************************************************************)
\* loop l leaves its select in this step
LeavesSelect(l) == loops[l].pc = "select" /\ loops'[l].pc # "select"

\* C24: once the stop channel is closed, a loop waiting in its select starts
\* no due-check cycle, also when a tick is pending: its next step is to exit.
C24_StopBeatsTick ==
    [][\A l \in LoopIds :
          stopClosed /\ LeavesSelect(l) => loops'[l].pc = "dead"]_vars

\* the same where no tick is pending when the loop leaves its select
C24_StopWithoutTick ==
    [][\A l \in LoopIds :
          stopClosed /\ LeavesSelect(l) /\ ~loops[l].tickPending =>
              loops'[l].pc = "dead"]_vars

\* a loop waits in its select with the stop channel closed and a tick pending
C24_Witness_BothReady ==
    \E l \in LoopIds :
        loops[l].pc = "select" /\ stopClosed /\ loops[l].tickPending

\* loop l begins the pipeline of a board in this step
BeginsPipeline(l) ==
    /\ loops'[l].pc = "fetch"
    /\ <<loops'[l].rtype, loops'[l].idx>> # <<loops[l].rtype, loops[l].idx>>

\* loop l begins the generation of a report type in this step
BeginsType(l) == loops'[l].rtype # <<>> /\ loops'[l].rtype # loops[l].rtype

\* loop l is inside a due-check cycle
MidCycle(l) == loops[l].pc \notin {"dead", "entry", "select"}

\* C25: once the stop channel is closed during a due-check cycle, the loop
\* begins no pipeline for a further board and no further report type in that
\* cycle.
C25_StopCheckedInsideCycle ==
    [][\A l \in LoopIds :
          stopClosed /\ MidCycle(l) => ~BeginsPipeline(l) /\ ~BeginsType(l)]_vars

\* the loop fetches board B2's data while the stop channel is closed
C25_Witness_FurtherBoard ==
    \E l \in LoopIds :
        /\ stopClosed
        /\ loops[l].pc = "generate"
        /\ loops[l].idx = 2

(***************************************************************************)
(* Claims about on-demand operations beside the loop (checked under          *)
(* ServeSpec).                                                               *)
(***************************************************************************)
\* the next step of thread t's on-demand call can be taken
OdCanGoOn(t) ==
    /\ pc[t] = "idle" /\ requests < MaxRequests => ENABLED OdDetails(t)
    /\ pc[t] = "od_data" => ENABLED OdData(t)
    /\ pc[t] = "od_generate" => ENABLED OdGenerate(t)
    /\ pc[t] = "od_save" => ENABLED OdSave(t)

\* a Stop call holds the mutex and waits for the loop, which is in a cycle
StopBlockedMidCycle ==
    /\ \E c \in Controllers : pc[c] = "stop_wait" /\ mutex = c
    /\ \E l \in LoopIds : MidCycle(l)

\* C26: whatever the loop and the Start and Stop calls are doing, also while
\* a cycle is in flight and Stop holds the mutex waiting for the loop, the
\* next step of an on-demand generation and each of the three lookups can be
\* taken at once.
C26_OnDemandNeverWaits ==
    ~panicked =>
        /\ \A t \in Requesters : OdCanGoOn(t)
        /\ ENABLED StoreGet
        /\ ENABLED StoreByBoard
        /\ ENABLED StoreByType

\* and none of their steps takes or releases the agent's mutex
C26_OnDemandTakesNoLock ==
    [][(\E t \in Requesters : OdStep(t)) \/ lookup' # lookup => mutex' = mutex]_vars

\* Stop holds the mutex and waits for the loop, which is inside its cycle,
\* while an on-demand call has fetched and generated and is about to save
C26_Witness ==
    /\ StopBlockedMidCycle
    /\ \E t \in Requesters : pc[t] = "od_save" /\ requests > 0

\* C29: every Start or Stop call that has taken the mutex returns, also the
\* Stop call that waits in wg.Wait() for the loop, so the mutex is free again
\* whenever a thread is blocked on it, and the call that takes it then
\* returns in turn.
C29_StartStopReturn ==
    /\ \A t \in Controllers : (pc[t] # "idle") ~> (pc[t] = "idle")
    /\ (mutex # NoThread) ~> (mutex = NoThread)

\* a Stop call is about to return nil: it held the mutex while the loop
\* finished a cycle that stored a report, and the loop has exited
C29_Witness ==
    /\ \E c \in Controllers : pc[c] = "stop_return" /\ ret[c] = "ok" /\ mutex = c
    /\ \A l \in LoopIds : loops[l].pc = "dead"
    /\ wg = 0
    /\ files # <<>>

=============================================================================
